---- MODULE Spec2Model ----
(***************************************************************************)
(* Resilient request execution layer of the Cakemail API client            *)
(* (BaseApiClient, src/src/api/base-client.ts).                            *)
(*                                                                         *)
(* Callers run makeRequest concurrently on one client.  Every await of the *)
(* TypeScript code is a point where another caller may run, so one action  *)
(* models the synchronous code between two awaits.  The token endpoint and *)
(* the API are the environment: their responses are inputs drawn from      *)
(* small sets.  RequestQueue, CircuitBreaker, RetryManager and RateLimiter *)
(* live in types/retry.ts, which is not part of the sources at hand; they  *)
(* are modelled from sections 4.2 - 4.5 of the specification.              *)
(***************************************************************************)
EXTENDS Integers, Sequences, FiniteSets, TLC

\* ------------------------------------------------------------------ bounds
NumCallers == 2            \* concurrent logical callers of one client
MaxTicks == 2              \* clock readings after the start
TickMs == 60 * 1000        \* granularity of the clock, milliseconds
MaxFetches == 5            \* page fetches issued by one iterator
MaxErrors == 1             \* page fetches of one iterator that fail
MaxSmallTotal == 6         \* largest of the small backend resources
MaxOps == 6                \* operations handed to the request queue
MaxPending == 4            \* operations handed to one sub-API and not settled

\* ------------------------------------------------- constants of the source
ExpiryBufferMs == 60000    \* passwordAuthenticate / refreshToken safety margin
RefreshWindowMs == 300000  \* refresh-due window before tokenExpiry
AuthMaxRetries == 3        \* authenticate: maxRetries
DefaultMaxConcurrent == 10 \* constructor: config.maxConcurrentRequests || 10
DefaultFailureThreshold == 5   \* constructor: circuitBreakerConfig
DefaultResetTimeout == 60000   \* constructor: circuitBreakerConfig

Callers == 1 .. NumCallers

VARIABLES
    now,          \* Date.now(), milliseconds
    cfg,          \* EnhancedCakemailConfig handed to the constructor
    policy,       \* RetryManager: its RetryConfig, the retry policy in force
    token,        \* this.token: <<>> (null) or <<[refresh, expires_in]>>
    tokenExpiry,  \* this.tokenExpiry: <<>> (null) or <<ms>>
    mockToken,    \* this.mockToken is set
    pc,           \* position of every caller inside makeRequest
    retryCount,   \* authenticate: retryCount of the caller's authenticate call
    authLog,      \* authenticate: password grants sent and backoff delays
                  \* slept by the caller's authenticate call so far
    rfFrom,       \* who called refreshToken for the caller; kept while the
                  \* password grant that follows its failure is in flight
    rejected,     \* the token endpoint answered a refresh-grant call with
                  \* 401/403 after this.token was last stored
    forced,       \* forceRefreshToken: what the caller's latest call returned
    waiting,      \* RequestQueue: operations waiting for a slot, oldest first
    running,      \* RequestQueue: slots in use
    breaker,      \* CircuitBreaker: state, consecutive failures, opened_at
                  \* and the caller running the HalfOpen trial (0: none)
    attempt,      \* RetryManager: number of the caller's current attempt
    lastResp,     \* response that ended the caller's latest attempt
    only5xx,      \* every failed attempt of the caller's request was a 5xx
    delays,       \* backoff delays (before jitter) waited by the caller
    waited,       \* the delays after jitter
    result,       \* what makeRequest returned or threw
    bucket,       \* RateLimiter: the budget, as milliseconds of refill
                  \* (current_tokens * interval), and last_refill_at
    wakeAt,       \* RateLimiter: when the caller's wait timer is due
    admitted,     \* acquire() calls that have returned so far
    health,       \* healthCheck: the report returned to the caller
    subs,         \* CakemailAPI: the RequestQueue of each of its sub-APIs,
                  \* slots in use and operations waiting
    ops,          \* RequestQueue, by operation: the operations handed to
                  \* add() are numbered in the order of the calls
    entry,        \* pagination: the method that built the iterator
    endpointName, \* pagination: endpointName handed to PaginationFactory
    limit,        \* pagination: per_page asked by the caller (0: none)
    total,        \* backend: number of items of the resource
    cursor,       \* PaginationCursor: page number and opaque cursor
    itState,      \* iterator: none, ready, fetching, done, failed, abandoned
    exhausted,    \* iterator: the last page fetched signalled the end
    buffer,       \* iterator: items of the current page not yet yielded
    delivered,    \* items handed to the consumer so far, in order
    fetches,      \* page fetches issued so far: parameters and outcome
    errors,       \* calls of the onError hook so far
    outstanding   \* page fetches issued and not yet settled

vars == << now, cfg, policy, token, tokenExpiry, mockToken, pc, retryCount,
           authLog, rfFrom,
           rejected, forced, waiting, running, breaker, attempt, lastResp, only5xx,
           delays, waited, result, bucket, wakeAt, admitted, health, subs, ops,
           entry, endpointName,
           limit, total, cursor, itState, exhausted, buffer, delivered,
           fetches, errors, outstanding >>

authVars == << token, tokenExpiry, retryCount, authLog, rfFrom, rejected,
              forced >>
queueVars == << waiting, running >>
retryVars == << attempt, lastResp, only5xx, delays, waited >>
rateVars == << bucket, wakeAt, admitted >>
pageVars == << entry, endpointName, limit, total, cursor, itState, exhausted,
               buffer, delivered, fetches, errors, outstanding >>

NoResult ==
    [kind |-> "none", status |-> 0, timeout |-> FALSE, value |-> "none",
     attempts |-> 0]

Min(a, b) == IF a <= b THEN a ELSE b

RECURSIVE Pow2(_)
Pow2(n) == IF n <= 0 THEN 1 ELSE 2 * Pow2(n - 1)

\* ============================================================ credential
\* getTokenStatus, for a credential (tok, exp) read at time now
GetTokenStatus(tok, exp) ==
    LET hasToken == tok # <<>>
    IN  [ hasToken        |-> hasToken,
          isExpired       |-> IF exp # <<>> THEN now >= exp[1] ELSE ~hasToken,
          needsRefresh    |-> IF hasToken /\ exp # <<>>
                              THEN now >= exp[1] - RefreshWindowMs
                              ELSE ~hasToken,
          hasRefreshToken |-> tok # <<>> /\ tok[1].refresh ]

\* faulty variant: the expiry is stored without the safety margin
StoredExpiryNoMargin(expires_in) == now + (expires_in * 1000)

\* the expiry both token calls store for a token response received at now
StoredExpiry(expires_in) == now + (expires_in * 1000) - ExpiryBufferMs

\* responses of the token endpoint: status 0 stands for a rejected fetch
ExpiresInChoices == {60, 120, 420}
TokenResponses ==
    [status : {200}, expires_in : ExpiresInChoices, refresh : BOOLEAN]
    \cup [status : {0, 401, 403, 500}, expires_in : {0}, refresh : {FALSE}]

AuthError(status) ==
    [kind |-> IF status = 0 THEN "FetchError" ELSE "AuthenticationError",
     status |-> status, timeout |-> FALSE, value |-> "none", attempts |-> 0]

\* what one authenticate call has done so far: nothing, one more password
\* grant sent
NoAuthLog == [password |-> 0, sleeps |-> <<>>]
PasswordSent(log) == [log EXCEPT !.password = @ + 1]

\* faulty variant: the delay grows by one second per failure
AuthBackoffLinear(rc) == rc * 1000

\* the delay authenticate sleeps after its failure number rc
AuthBackoff(rc) == Pow2(rc) * 1000

\* faulty variant: authenticate refreshes whenever a refresh token exists
AuthenticateRefreshesAny(p, rc, tok, exp, from) ==
    /\ retryCount' = [retryCount EXCEPT ![p] = rc]
    /\ IF tok # <<>> /\ tok[1].refresh
       THEN /\ pc' = [pc EXCEPT ![p] = "rf_fetch"]
            /\ rfFrom' = [rfFrom EXCEPT ![p] = "authenticate"]
            /\ authLog' = [authLog EXCEPT ![p] =
                               IF rc = 0 THEN NoAuthLog ELSE @]
       ELSE /\ pc' = [pc EXCEPT ![p] = "pw_fetch"]
            /\ rfFrom' = [rfFrom EXCEPT ![p] = from]
            /\ authLog' = [authLog EXCEPT ![p] =
                               PasswordSent(IF rc = 0 THEN NoAuthLog ELSE @)]

\* authenticate, one pass of its loop up to the first await: the refresh
\* grant when a refresh token exists and the token is more than the refresh
\* window away from its expiry, the password grant otherwise (from: the
\* refreshToken call whose failure led here, "none" without one)
Authenticate(p, rc, tok, exp, from) ==
    /\ retryCount' = [retryCount EXCEPT ![p] = rc]
    /\ IF tok # <<>> /\ tok[1].refresh /\ exp # <<>>
          /\ now < exp[1] - RefreshWindowMs
       THEN /\ pc' = [pc EXCEPT ![p] = "rf_fetch"]
            /\ rfFrom' = [rfFrom EXCEPT ![p] = "authenticate"]
            /\ authLog' = [authLog EXCEPT ![p] =
                               IF rc = 0 THEN NoAuthLog ELSE @]
       ELSE /\ pc' = [pc EXCEPT ![p] = "pw_fetch"]
            /\ rfFrom' = [rfFrom EXCEPT ![p] = from]
            /\ authLog' = [authLog EXCEPT ![p] =
                               PasswordSent(IF rc = 0 THEN NoAuthLog ELSE @)]

\* faulty variant: only a missing token is renewed, an expired one is kept
EnsureValidTokenIgnoresExpiry(p) ==
    IF mockToken \/ token # <<>>
    THEN /\ pc' = [pc EXCEPT ![p] = "enqueue"]
         /\ UNCHANGED << retryCount, authLog, rfFrom >>
    ELSE Authenticate(p, 0, token, tokenExpiry, "none")

\* ensureValidToken up to its first await
EnsureValidToken(p) ==
    LET status == GetTokenStatus(token, tokenExpiry)
    IN  IF mockToken
        THEN /\ pc' = [pc EXCEPT ![p] = "enqueue"]
             /\ UNCHANGED << retryCount, authLog, rfFrom >>
        ELSE IF ~status.hasToken \/ status.isExpired
        THEN Authenticate(p, 0, token, tokenExpiry, "none")
        ELSE IF status.needsRefresh /\ status.hasRefreshToken
        THEN /\ pc' = [pc EXCEPT ![p] = "rf_fetch"]
             /\ rfFrom' = [rfFrom EXCEPT ![p] = "ensureValidToken"]
             /\ UNCHANGED << retryCount, authLog >>
        ELSE /\ pc' = [pc EXCEPT ![p] = "enqueue"]
             /\ UNCHANGED << retryCount, authLog, rfFrom >>

\* ------------------------------------------------------------ healthCheck
\* CakemailError and its subclasses; the breaker's fast-fail error, the
\* rejections of fetch and of response.json() are not among them
IsCakemailError(res) ==
    res.kind \in {"ApiError", "AuthenticationError", "NetworkError"}

\* statusCode of a CakemailError: 401 for every CakemailAuthenticationError
StatusCode(res) == IF res.kind = "AuthenticationError" THEN 401 ELSE res.status

\* no healthCheck was called, and one that awaits its makeRequest
NoReport ==
    [status |-> "none", authenticated |-> FALSE, statusCode |-> 0,
     errorType |-> "none"]
Probing == [NoReport EXCEPT !.status = "probing"]

\* faulty variant: every CakemailError is reported as authenticated
HealthReportTrustsErrors(res) ==
    IF res.kind = "ok"
    THEN [status |-> "healthy", authenticated |-> TRUE, statusCode |-> 0,
          errorType |-> "none"]
    ELSE [status |-> "unhealthy", authenticated |-> IsCakemailError(res),
          statusCode |-> IF IsCakemailError(res) THEN StatusCode(res) ELSE 0,
          errorType |-> IF IsCakemailError(res) THEN res.kind
                        ELSE "UnknownError"]

\* healthCheck: what it returns for the outcome of its makeRequest
HealthReport(res) ==
    IF res.kind = "ok"
    THEN [status |-> "healthy", authenticated |-> TRUE, statusCode |-> 0,
          errorType |-> "none"]
    ELSE IF IsCakemailError(res)
    THEN [status |-> "unhealthy", authenticated |-> (StatusCode(res) # 401),
          statusCode |-> StatusCode(res), errorType |-> res.kind]
    ELSE [status |-> "unhealthy", authenticated |-> FALSE, statusCode |-> 0,
          errorType |-> "UnknownError"]

\* makeRequest of caller p returns or throws: a healthCheck that awaits it
\* returns its report
Returned(p) ==
    health' = [health EXCEPT ![p] = IF @ = Probing
                                    THEN HealthReport(result[p]) ELSE @]

\* healthCheck, up to the first await of its makeRequest('/accounts/self')
HealthCheck(p) ==
    /\ pc[p] = "idle"
    /\ EnsureValidToken(p)
    /\ health' = [health EXCEPT ![p] = Probing]
    /\ UNCHANGED << now, cfg, policy, subs, ops, pageVars, token, tokenExpiry, mockToken,
                    rejected, forced, queueVars, breaker, retryVars, result,
                    rateVars >>

\* makeRequest, first statement: await this.ensureValidToken()
MakeRequest(p) ==
    /\ pc[p] = "idle"
    /\ EnsureValidToken(p)
    /\ UNCHANGED << now, cfg, policy, health, subs, ops, pageVars, token, tokenExpiry, mockToken, rejected, forced,
                    queueVars, breaker, retryVars, result, rateVars >>

\* passwordAuthenticate after its fetch settled; a failure lands in the
\* catch of authenticate, which gives up at the third or sleeps
PasswordAuthenticate(p, r) ==
    /\ pc[p] = "pw_fetch"
    /\ IF r.status = 200
       THEN /\ token' = << [refresh |-> r.refresh,
                         expires_in |-> r.expires_in] >>
            /\ tokenExpiry' = << StoredExpiry(r.expires_in) >>
            /\ rejected' = FALSE
            /\ pc' = [pc EXCEPT ![p] = "enqueue"]
            /\ retryCount' = [retryCount EXCEPT ![p] = 0]
            /\ authLog' = [authLog EXCEPT ![p] = NoAuthLog]
            /\ UNCHANGED result
       ELSE /\ retryCount' = [retryCount EXCEPT ![p] = @ + 1]
            /\ IF retryCount[p] + 1 >= AuthMaxRetries
               THEN /\ pc' = [pc EXCEPT ![p] = "done"]
                    /\ result' = [result EXCEPT ![p] = AuthError(r.status)]
                    /\ UNCHANGED authLog
               ELSE /\ pc' = [pc EXCEPT ![p] = "auth_sleep"]
                    /\ authLog' = [authLog EXCEPT ![p].sleeps =
                                       Append(@, AuthBackoff(retryCount[p] + 1))]
                    /\ UNCHANGED result
            /\ UNCHANGED << token, tokenExpiry, rejected >>
    /\ rfFrom' = [rfFrom EXCEPT ![p] = "none"]
    /\ UNCHANGED << now, cfg, policy, health, subs, ops, pageVars, mockToken,
                    queueVars, breaker, retryVars, rateVars, forced >>

\* authenticate: the backoff timer fired, next pass of the loop
AuthWake(p) ==
    /\ pc[p] = "auth_sleep"
    /\ Authenticate(p, retryCount[p], token, tokenExpiry, "none")
    /\ UNCHANGED << now, cfg, policy, health, subs, ops, pageVars, token, tokenExpiry, mockToken, rejected, forced,
                    queueVars, breaker, retryVars, result, rateVars >>

\* what refreshToken leaves in token / tokenExpiry for a non-2xx response
\* faulty variant: a rejected refresh token stays stored
RefreshFailureKeepsToken(status, tok) == tok
\* faulty variant: every failed refresh clears the credential
RefreshFailureClearsAlways(status, tok) == <<>>

RefreshFailure(status, tok) ==
    IF status = 401 \/ status = 403 THEN <<>> ELSE tok

\* faulty variant: a rejected refresh clears this.token alone
RefreshFailureExpiryKept(status, exp) == exp

\* what refreshToken leaves in this.tokenExpiry for a non-2xx response
RefreshFailureExpiry(status, exp) == RefreshFailure(status, exp)

\* faulty variant: the error of refreshToken is not caught by its caller
RefreshThrown(p, status) ==
    /\ pc' = [pc EXCEPT ![p] = "done"]
    /\ result' = [result EXCEPT ![p] = AuthError(status)]
    /\ UNCHANGED << retryCount, authLog, rfFrom >>

\* the catch around refreshToken in its two callers: ensureValidToken
\* starts authenticate, authenticate goes on to the password grant
RefreshCaught(p, status) ==
    /\ IF rfFrom[p] = "ensureValidToken"
       THEN Authenticate(p, 0, token', tokenExpiry', "ensureValidToken")
       ELSE /\ pc' = [pc EXCEPT ![p] = "pw_fetch"]
            /\ authLog' = [authLog EXCEPT ![p] = PasswordSent(@)]
            /\ UNCHANGED << retryCount, rfFrom >>
    /\ UNCHANGED result

\* forceRefreshToken: nothing returned yet, and what it returns when its
\* refreshToken has settled with the given error ("none": no error); of the
\* report, success and the error message are kept, the message as the kind
\* of error and the status it names
NoForcedReport == [success |-> FALSE, error |-> "none", status |-> 0]

ForcedReport(error, status) ==
    [success |-> (error = "none"), error |-> error, status |-> status]

\* the error refreshToken throws for a response that is not a 2xx
RefreshError(status) ==
    IF status = 0 THEN "FetchError"
    ELSE IF status = 401 \/ status = 403 THEN "RefreshTokenInvalid"
    ELSE "TokenRefreshFailed"

\* forceRefreshToken up to the first await of its refreshToken, which throws
\* at once without a refresh token
ForceRefreshToken(p) ==
    /\ pc[p] = "idle"
    /\ IF token = <<>> \/ ~token[1].refresh
       THEN /\ forced' = [forced EXCEPT ![p] =
                             ForcedReport("NoRefreshToken", 0)]
            /\ UNCHANGED << pc, rfFrom >>
       ELSE /\ forced' = [forced EXCEPT ![p] = NoForcedReport]
            /\ pc' = [pc EXCEPT ![p] = "rf_fetch"]
            /\ rfFrom' = [rfFrom EXCEPT ![p] = "forceRefreshToken"]
    /\ UNCHANGED << now, cfg, policy, health, subs, ops, pageVars, mockToken,
                    token, tokenExpiry, retryCount, authLog, rejected,
                    queueVars, breaker, retryVars, result, rateVars >>

\* the refreshToken of forceRefreshToken settled: it returns its report
ForceReturns(p, status) ==
    /\ pc' = [pc EXCEPT ![p] = "idle"]
    /\ rfFrom' = [rfFrom EXCEPT ![p] = "none"]
    /\ forced' = [forced EXCEPT ![p] =
                     ForcedReport(IF status = 200 THEN "none"
                                  ELSE RefreshError(status), status)]
    /\ UNCHANGED << retryCount, authLog, result >>

\* refreshToken after its fetch settled; a failure is caught by the caller
RefreshToken(p, r) ==
    /\ pc[p] = "rf_fetch"
    /\ IF r.status = 200
       THEN /\ token' = << [refresh |-> r.refresh,
                         expires_in |-> r.expires_in] >>
            /\ tokenExpiry' = << StoredExpiry(r.expires_in) >>
            /\ rejected' = FALSE
            /\ IF rfFrom[p] = "forceRefreshToken"
               THEN ForceReturns(p, r.status)
               ELSE /\ pc' = [pc EXCEPT ![p] = "enqueue"]
                    /\ retryCount' = [retryCount EXCEPT ![p] = 0]
                    /\ authLog' = [authLog EXCEPT ![p] = NoAuthLog]
                    /\ rfFrom' = [rfFrom EXCEPT ![p] = "none"]
                    /\ UNCHANGED << result, forced >>
       ELSE /\ token' = (IF r.status = 0 THEN token
                         ELSE RefreshFailure(r.status, token))
            /\ tokenExpiry' = (IF r.status = 0 THEN tokenExpiry
                               ELSE RefreshFailureExpiry(r.status,
                                                         tokenExpiry))
            /\ rejected' = (rejected \/ r.status \in {401, 403})
            /\ IF rfFrom[p] = "forceRefreshToken"
               THEN ForceReturns(p, r.status)
               ELSE RefreshCaught(p, r.status) /\ UNCHANGED forced
    /\ UNCHANGED << now, cfg, policy, health, subs, ops, pageVars, mockToken,
                    queueVars, breaker, retryVars, rateVars >>

\* the clock
Tick ==
    /\ now < MaxTicks * TickMs
    /\ now' = now + TickMs
    /\ UNCHANGED << cfg, policy, health, subs, ops, pageVars, token, tokenExpiry, mockToken, pc,
                    retryCount, authLog,
                    rfFrom, rejected, forced, queueVars, breaker, retryVars, result,
                    rateVars >>

\* ================================================= constructor (wiring)
\* faulty variants: the configured capacity is ignored / is never positive
QueueCapacityIgnoresConfig == DefaultMaxConcurrent
QueueCapacityZero ==
    IF cfg.maxConcurrentRequests = 0 THEN DefaultMaxConcurrent ELSE 0

\* this.requestQueue = new RequestQueue(config.maxConcurrentRequests || 10)
QueueCapacity ==
    IF cfg.maxConcurrentRequests = 0 THEN DefaultMaxConcurrent
    ELSE cfg.maxConcurrentRequests

\* circuitBreakerConfig = {enabled: false, failureThreshold: 5,
\*                         resetTimeout: 60000, ...config.circuitBreaker}
CircuitBreakerConfig ==
    IF cfg.circuitBreaker = <<>>
    THEN [enabled |-> FALSE, failureThreshold |-> DefaultFailureThreshold,
          resetTimeout |-> DefaultResetTimeout]
    ELSE cfg.circuitBreaker[1]

\* faulty variant: the breaker is built whether enabled or not
HasCircuitBreakerAlways == TRUE
\* this.circuitBreaker is not null
HasCircuitBreaker == CircuitBreakerConfig.enabled
\* new CircuitBreaker(failureThreshold, resetTimeout, debugMode)
\* faulty variant: the configured threshold is not handed to the breaker
FailureThresholdIgnoresConfig == DefaultFailureThreshold
FailureThreshold == CircuitBreakerConfig.failureThreshold
\* faulty variant: the reset timeout is dropped, an open breaker lets the next call through at once
ResetTimeoutMissing == 0 * CircuitBreakerConfig.resetTimeout
ResetTimeout == CircuitBreakerConfig.resetTimeout

\* faulty variants: config.retry is not handed on / is handed on off by one
RetryPolicyNoRetry == [policy EXCEPT !.maxAttempts = 1]
RetryPolicyOneMore == [policy EXCEPT !.maxAttempts = @ + 1]
RetryPolicyUncapped == [policy EXCEPT !.maxDelay = 1000 * @]

\* the policy executeWithRetry works with: the RetryManager's config, which
\* is config.retry from new RetryManager(config.retry, this.debugMode) until
\* updateRetryConfig changes it
RetryPolicy == policy

\* rateLimitConfig = {...DEFAULT_RATE_LIMIT_CONFIG, ...config.rateLimit};
\* every configuration considered here sets all its fields
RateLimitConfig == cfg.rateLimit
\* this.rateLimiter is not null
HasRateLimiter == RateLimitConfig.enabled

\* ================================================== circuit breaker (4.4)
\* the gate of execute: is the call of p let through, and the breaker after
BreakerGate(b, p) ==
    IF b.state = "CLOSED"
    THEN [admit |-> TRUE, breaker |-> b]
    ELSE IF b.state = "OPEN" /\ now - b.openedAt >= ResetTimeout
    THEN [admit |-> TRUE,
          breaker |-> [b EXCEPT !.state = "HALF_OPEN", !.trial = p]]
    ELSE [admit |-> FALSE, breaker |-> b]

\* the breaker after the operation of caller p has settled
BreakerRecord(b, p, success) ==
    IF b.state = "CLOSED"
    THEN IF success
         THEN [b EXCEPT !.failures = 0]
         ELSE IF b.failures + 1 >= FailureThreshold
              THEN [b EXCEPT !.failures = @ + 1, !.state = "OPEN",
                             !.openedAt = now]
              ELSE [b EXCEPT !.failures = @ + 1]
    ELSE IF b.state = "HALF_OPEN" /\ b.trial = p
    THEN IF success
         THEN [b EXCEPT !.state = "CLOSED", !.failures = 0, !.trial = 0]
         ELSE [b EXCEPT !.state = "OPEN", !.openedAt = now, !.trial = 0]
    ELSE b  \* a call let through before the breaker opened

\* ===================================================== retry manager (4.3)
\* faulty variant: the delay is computed from the policy the manager was
\* built with, the decision to retry from the policy in force
BackoffDelayStale(n) ==
    Min(cfg.retry.baseDelay * Pow2(n - 2), cfg.retry.maxDelay)

\* delay before attempt n (n >= 2), before jitter
BackoffDelay(n) ==
    Min(RetryPolicy.baseDelay * Pow2(n - 2), RetryPolicy.maxDelay)

\* the jitter of one delay is at most half of it
JitterRange(d) == d \div 2

\* the delays that can be waited for the delay d of the schedule
Jittered(d) ==
    IF RetryPolicy.jitter
    THEN {d - JitterRange(d), d, d + JitterRange(d)}
    ELSE {d}

\* network errors, 5xx and 429 are retried
Retryable(e) ==
    \/ e.kind = "NetworkError"
    \/ e.kind = "ApiError" /\ (e.status >= 500 \/ e.status = 429)

\* ====================================================== rate limiter (4.2)
\* The budget is kept as milliseconds of refill: one token is worth
\* interval milliseconds (refill_rate = 1 / interval tokens per millisecond),
\* so the fractional tokens of the token bucket are whole numbers here.
OneToken == RateLimitConfig.interval
BucketCapacity == RateLimitConfig.capacity * RateLimitConfig.interval

\* the budget after the refill for the time elapsed since last_refill_at
Refilled(b) ==
    [credit |-> Min(BucketCapacity, b.credit + (now - b.lastRefill)),
     lastRefill |-> now]

\* acquire, one check: refill, then debit one token and return, or compute
\* the minimal wait that covers the deficit
Acquire(b) ==
    LET r == Refilled(b)
    IN  IF r.credit >= OneToken
        THEN [ok |-> TRUE, bucket |-> [r EXCEPT !.credit = @ - OneToken],
              wait |-> 0]
        ELSE [ok |-> FALSE, bucket |-> r, wait |-> OneToken - r.credit]

\* =============================================================== requests
\* what one network attempt can come to
ApiStatuses == {200, 401, 404, 429, 500}
\* a response has a status, a content type that names application/json or
\* not (jsonType), and a body that is JSON text or not (parses); the
\* responses of ApiResponses are JSON
NoFetchResponses ==
    [transport : {"error", "timeout"}, status : {0}, jsonType : {FALSE},
     parses : {FALSE}]
ApiResponses ==
    [transport : {"ok"}, status : ApiStatuses, jsonType : {TRUE},
     parses : {TRUE}]
    \cup NoFetchResponses
AllStatuses == {200, 204, 304, 400, 401, 404, 429, 500, 503}
AllApiResponses ==
    [transport : {"ok"}, status : AllStatuses, jsonType : BOOLEAN,
     parses : BOOLEAN]
    \cup NoFetchResponses
NoTokenResponse ==
    [transport |-> "none", status |-> 0, jsonType |-> FALSE, parses |-> FALSE]
NoResponse ==
    [transport |-> "", status |-> 0, jsonType |-> FALSE, parses |-> FALSE]

\* parseErrorResponse: the parsed body, or {detail: ...} for a body that is
\* not JSON; it never throws
ParseErrorResponse(resp) == IF resp.parses THEN "data" ELSE "detail"

\* createCakemailError: the structured error for a non-2xx status (section 7)
CreateCakemailError(status, errorBody) ==
    [kind |-> IF status = 401 THEN "AuthenticationError" ELSE "ApiError",
     status |-> status, timeout |-> FALSE, value |-> errorBody]

\* faulty variant: the error for a non-2xx status is thrown inside the try
\* block around fetch and comes out wrapped as a network error
ExecuteRequestOutcomeWrapsAll(resp) ==
    IF resp.transport = "ok" /\ resp.status >= 200 /\ resp.status < 300
    THEN [kind |-> "ok", status |-> resp.status, timeout |-> FALSE,
          value |-> "data"]
    ELSE [kind |-> "NetworkError", status |-> 0,
          timeout |-> (resp.transport = "timeout"), value |-> "none"]

\* faulty variant: the rejection of withTimeout is thrown on as it is
ExecuteRequestOutcomeTimeoutRaw(resp) ==
    IF resp.transport = "none"
    THEN [kind |-> "AuthenticationError", status |-> 0, timeout |-> FALSE,
          value |-> "none"]
    ELSE IF resp.transport = "timeout"
    THEN [kind |-> "Error", status |-> 0, timeout |-> TRUE, value |-> "none"]
    ELSE IF resp.transport # "ok"
    THEN [kind |-> "NetworkError", status |-> 0, timeout |-> FALSE,
          value |-> "none"]
    ELSE IF resp.status < 200 \/ resp.status >= 300
    THEN CreateCakemailError(resp.status, ParseErrorResponse(resp))
    ELSE [kind |-> "ok", status |-> resp.status, timeout |-> FALSE,
          value |-> IF resp.jsonType THEN "data" ELSE "success"]

\* executeRequest: what it returns or throws for one attempt
ExecuteRequestOutcome(resp) ==
    IF resp.transport = "none"
    THEN [kind |-> "AuthenticationError", status |-> 0, timeout |-> FALSE,
          value |-> "none"]
    ELSE IF resp.transport # "ok"
    THEN [kind |-> "NetworkError", status |-> 0,
          timeout |-> (resp.transport = "timeout"), value |-> "none"]
    ELSE IF resp.status < 200 \/ resp.status >= 300
    THEN CreateCakemailError(resp.status, ParseErrorResponse(resp))
    ELSE IF ~resp.jsonType
    THEN [kind |-> "ok", status |-> resp.status, timeout |-> FALSE,
          value |-> "success"]
    ELSE IF resp.parses
    THEN [kind |-> "ok", status |-> resp.status, timeout |-> FALSE,
          value |-> "data"]
    ELSE [kind |-> "SyntaxError", status |-> 0, timeout |-> FALSE,
          value |-> "none"]

Tagged(o, n) ==
    [kind |-> o.kind, status |-> o.status, timeout |-> o.timeout,
     value |-> o.value, attempts |-> n]

CircuitOpenError ==
    [kind |-> "CircuitOpenError", status |-> 0, timeout |-> FALSE,
     value |-> "none", attempts |-> 0]

\* the request-local state of a caller that has no request under way
Fresh ==
    [pc |-> "idle", attempt |-> 0, lastResp |-> NoResponse, only5xx |-> TRUE,
     delays |-> <<>>, result |-> NoResult]

\* faulty variant: the retry manager wraps the breaker, which books every
\* failed attempt
SettledBooksEveryAttempt(p, n, resp, b) ==
    LET o == ExecuteRequestOutcome(resp)
        seen == [attempt |-> n, lastResp |-> resp,
                 only5xx |-> only5xx[p] /\ (o.kind = "ok" \/
                               (resp.transport = "ok" /\ resp.status >= 500))]
        booked == IF HasCircuitBreaker
                  THEN BreakerRecord(b, p, o.kind = "ok") ELSE b
    IN  IF o.kind # "ok" /\ Retryable(o) /\ n < RetryPolicy.maxAttempts
        THEN seen @@ [pc |-> "backoff",
                      delays |-> Append(delays[p], BackoffDelay(n + 1)),
                      result |-> NoResult, breaker |-> booked]
        ELSE seen @@ [pc |-> "release", delays |-> delays[p],
                      result |-> Tagged(o, n), breaker |-> booked]

\* executeWithRetry, attempt n of caller p ended with response resp: it
\* returns, backs off or gives up; the breaker around it (b) books the final
\* outcome.  The value is the caller's request-local state and the breaker.
Settled(p, n, resp, b) ==
    LET o == ExecuteRequestOutcome(resp)
        seen == [attempt |-> n, lastResp |-> resp,
                 only5xx |-> only5xx[p] /\ (o.kind = "ok" \/
                               (resp.transport = "ok" /\ resp.status >= 500))]
    IN  IF o.kind = "ok"
        THEN seen @@ [pc |-> "release", delays |-> delays[p],
                      result |-> Tagged(o, n),
                      breaker |-> IF HasCircuitBreaker
                                  THEN BreakerRecord(b, p, TRUE) ELSE b]
        ELSE IF Retryable(o) /\ n < RetryPolicy.maxAttempts
        THEN seen @@ [pc |-> "backoff",
                      delays |-> Append(delays[p], BackoffDelay(n + 1)),
                      result |-> NoResult, breaker |-> b]
        ELSE seen @@ [pc |-> "release", delays |-> delays[p],
                      result |-> Tagged(o, n),
                      breaker |-> IF HasCircuitBreaker
                                  THEN BreakerRecord(b, p, FALSE) ELSE b]

\* operation is invoked as attempt n of caller p: executeRequest throws at
\* once when there is no token, and issues its fetch otherwise
Invoked(p, n, b) ==
    IF ~mockToken /\ token = <<>>
    THEN Settled(p, n, NoTokenResponse, b)
    ELSE [pc |-> "net", attempt |-> n, lastResp |-> NoResponse,
          only5xx |-> only5xx[p], delays |-> delays[p], result |-> NoResult,
          breaker |-> b]

\* faulty variant: operation does not await rateLimiter.acquire()
OperationWithoutAwait(p, n, b) ==
    Invoked(p, n, b)
    @@ [bucket |-> IF HasRateLimiter THEN Acquire(bucket).bucket ELSE bucket,
        wake |-> 0,
        admitted |-> IF HasRateLimiter THEN admitted + 1 ELSE admitted]

\* operation, attempt n of caller p, from its start or from the end of a
\* rate-limit wait: rateLimiter.acquire() when a limiter exists, then
\* executeRequest.  The value adds the budget, the caller's wait timer and
\* the count of returned acquires.
Operation(p, n, b) ==
    IF ~HasRateLimiter
    THEN Invoked(p, n, b)
         @@ [bucket |-> bucket, wake |-> 0, admitted |-> admitted]
    ELSE LET a == Acquire(bucket)
         IN  IF a.ok
             THEN Invoked(p, n, b)
                  @@ [bucket |-> a.bucket, wake |-> 0,
                      admitted |-> admitted + 1]
             ELSE [pc |-> "rate_wait", attempt |-> n, lastResp |-> NoResponse,
                   only5xx |-> only5xx[p], delays |-> delays[p],
                   result |-> NoResult, breaker |-> b, bucket |-> a.bucket,
                   wake |-> now + a.wait, admitted |-> admitted]

\* caller q takes the rate limiter's part of s
Limited(q, s) ==
    /\ bucket' = s.bucket
    /\ wakeAt' = [wakeAt EXCEPT ![q] = s.wake]
    /\ admitted' = s.admitted

\* faulty variant: the breaker is not consulted before the call
StartedWithoutBreaker(p, b) == Operation(p, 1, b)

\* the function makeRequest hands to the queue starts for caller p:
\* circuitBreaker.execute(executeWithRetry(operation)) when a breaker
\* exists, executeWithRetry(operation) otherwise
Started(p, b) ==
    IF ~HasCircuitBreaker
    THEN Operation(p, 1, b)
    ELSE LET g == BreakerGate(b, p)
         IN  IF g.admit
             THEN Operation(p, 1, g.breaker)
             ELSE [Fresh EXCEPT !.pc = "release", !.result = CircuitOpenError]
                  @@ [breaker |-> b, bucket |-> bucket, wake |-> 0,
                      admitted |-> admitted]

\* caller q takes the request-local state s, the others keep theirs
Becomes(q, s) ==
    /\ attempt' = [attempt EXCEPT ![q] = s.attempt]
    /\ lastResp' = [lastResp EXCEPT ![q] = s.lastResp]
    /\ only5xx' = [only5xx EXCEPT ![q] = s.only5xx]
    /\ delays' = [delays EXCEPT ![q] = s.delays]
    /\ IF Len(s.delays) > Len(waited[q])
       THEN \E w \in Jittered(s.delays[Len(s.delays)]) :
                waited' = [waited EXCEPT ![q] = Append(@, w)]
       ELSE waited' = [waited EXCEPT ![q] = IF s.delays = <<>> THEN <<>>
                                           ELSE @]
    /\ result' = [result EXCEPT ![q] = s.result]

\* faulty variant: the function is run at once, not handed to the queue
EnqueueWithoutSlot(p) ==
    /\ pc[p] = "enqueue"
    /\ LET s == Started(p, breaker)
       IN  /\ pc' = [pc EXCEPT ![p] = s.pc]
           /\ Becomes(p, s)
           /\ Limited(p, s)
           /\ breaker' = s.breaker
    /\ UNCHANGED << now, cfg, policy, health, subs, ops, pageVars, mockToken, authVars, queueVars >>

\* makeRequest: requestQueue.add(...) once ensureValidToken has returned.
\* The queue starts its oldest waiter at once when a slot is free.
Enqueue(p) ==
    /\ pc[p] = "enqueue"
    /\ LET w == Append(waiting, p)
           q == Head(w)
           s == Started(q, breaker)
       IN  IF running < QueueCapacity
           THEN /\ running' = running + 1
                /\ waiting' = Tail(w)
                /\ pc' = [[pc EXCEPT ![p] = "queued"] EXCEPT ![q] = s.pc]
                /\ Becomes(q, s)
                /\ Limited(q, s)
                /\ breaker' = s.breaker
           ELSE /\ waiting' = w
                /\ pc' = [pc EXCEPT ![p] = "queued"]
                /\ UNCHANGED << running, breaker, retryVars, result,
                                rateVars >>
    /\ UNCHANGED << now, cfg, policy, health, subs, ops, pageVars, mockToken, authVars >>

\* the fetch of executeRequest settled
ExecuteRequest(p, resp) ==
    /\ pc[p] = "net"
    /\ LET s == Settled(p, attempt[p], resp, breaker)
       IN  /\ pc' = [pc EXCEPT ![p] = s.pc]
           /\ Becomes(p, s)
           /\ breaker' = s.breaker
    /\ UNCHANGED << now, cfg, policy, health, subs, ops, pageVars, mockToken, authVars, queueVars, rateVars >>

\* faulty variant: the next attempt takes a queue slot of its own
BackoffTakesSlot(p) ==
    /\ pc[p] = "backoff"
    /\ LET s == Operation(p, attempt[p] + 1, breaker)
       IN  /\ pc' = [pc EXCEPT ![p] = s.pc]
           /\ Becomes(p, s)
           /\ Limited(p, s)
           /\ breaker' = s.breaker
    /\ running' = running + 1
    /\ UNCHANGED << now, cfg, policy, health, subs, ops, pageVars, mockToken,
                    authVars, waiting >>

\* the backoff timer of executeWithRetry fired: next attempt
Backoff(p) ==
    /\ pc[p] = "backoff"
    /\ LET s == Operation(p, attempt[p] + 1, breaker)
       IN  /\ pc' = [pc EXCEPT ![p] = s.pc]
           /\ Becomes(p, s)
           /\ Limited(p, s)
           /\ breaker' = s.breaker
    /\ UNCHANGED << now, cfg, policy, health, subs, ops, pageVars, mockToken, authVars, queueVars >>

\* the wait timer of rateLimiter.acquire() fired: the check is made again
RateWake(p) ==
    /\ pc[p] = "rate_wait"
    /\ now >= wakeAt[p]
    /\ LET s == Operation(p, attempt[p], breaker)
       IN  /\ pc' = [pc EXCEPT ![p] = s.pc]
           /\ Becomes(p, s)
           /\ Limited(p, s)
           /\ breaker' = s.breaker
    /\ UNCHANGED << now, cfg, policy, health, subs, ops, pageVars, mockToken, authVars, queueVars >>

\* the queued function of p settled and makeRequest has handed its result to
\* the caller: the slot is freed and the oldest waiter starts
Release(p) ==
    /\ pc[p] = "release"
    /\ IF waiting # <<>> /\ running - 1 < QueueCapacity
       THEN LET q == Head(waiting)
                s == Started(q, breaker)
            IN  /\ waiting' = Tail(waiting)
                /\ UNCHANGED running
                /\ pc' = [pc EXCEPT ![p] = "idle", ![q] = s.pc]
                /\ attempt' = [attempt EXCEPT ![p] = 0, ![q] = s.attempt]
                /\ lastResp' = [lastResp EXCEPT ![p] = NoResponse,
                                                ![q] = s.lastResp]
                /\ only5xx' = [only5xx EXCEPT ![p] = TRUE, ![q] = s.only5xx]
                /\ delays' = [delays EXCEPT ![p] = <<>>, ![q] = s.delays]
                /\ waited' = [waited EXCEPT ![p] = <<>>, ![q] = <<>>]
                /\ result' = [result EXCEPT ![p] = NoResult, ![q] = s.result]
                /\ Limited(q, s)
                /\ breaker' = s.breaker
       ELSE /\ running' = running - 1
            /\ pc' = [pc EXCEPT ![p] = "idle"]
            /\ Becomes(p, Fresh)
            /\ UNCHANGED << waiting, breaker, rateVars >>
    /\ Returned(p)
    /\ UNCHANGED << now, cfg, policy, subs, ops, pageVars, mockToken, authVars >>

\* faulty variant: makeRequest goes on to the queue after ensureValidToken
\* threw
ReturnSwallowsError(p) ==
    /\ pc[p] = "done"
    /\ pc' = [pc EXCEPT ![p] = "enqueue"]
    /\ result' = [result EXCEPT ![p] = NoResult]
    /\ retryCount' = [retryCount EXCEPT ![p] = 0]
    /\ authLog' = [authLog EXCEPT ![p] = NoAuthLog]
    /\ UNCHANGED << now, cfg, policy, health, subs, ops, pageVars, mockToken,
                    token, tokenExpiry, rfFrom, rejected, forced, queueVars, breaker,
                    retryVars, rateVars >>

\* ensureValidToken threw, makeRequest rejected: the caller may call again
Return(p) ==
    /\ pc[p] = "done"
    /\ pc' = [pc EXCEPT ![p] = "idle"]
    /\ result' = [result EXCEPT ![p] = NoResult]
    /\ retryCount' = [retryCount EXCEPT ![p] = 0]
    /\ authLog' = [authLog EXCEPT ![p] = NoAuthLog]
    /\ Returned(p)
    /\ UNCHANGED << now, cfg, policy, subs, ops, pageVars, mockToken, token, tokenExpiry, rfFrom,
                    rejected, forced, queueVars, breaker, retryVars, rateVars >>

\* ================================================ pagination engine (4.7)
\* PaginationConfigRegistry.getConfig: strategy and limits of an endpoint
OffsetConfig == [strategy |-> "OFFSET", default_limit |-> 50, max_limit |-> 100]

\* faulty variants: every endpoint is given one and the same strategy
GetConfigCursorOnly(endpoint) ==
    [strategy |-> "CURSOR", default_limit |-> 50, max_limit |-> 100]
GetConfigOffsetOnly(endpoint) == OffsetConfig

GetConfig(endpoint) ==
    CASE endpoint = "campaigns" ->
           [strategy |-> "OFFSET", default_limit |-> 10, max_limit |-> 50]
      [] endpoint \in {"logs", "campaign_logs"} ->
           [strategy |-> "CURSOR", default_limit |-> 50, max_limit |-> 100]
      [] OTHER -> OffsetConfig

\* the methods that build an iterator, and what they do with it
Entries ==
    {"getAllItems", "processBatches", "getCampaignsIterator",
     "getAllCampaigns"}

\* getCampaignsIterator always names the campaigns endpoint
EndpointsOf(e) ==
    IF e \in {"getCampaignsIterator", "getAllCampaigns"}
    THEN {"campaigns"}
    ELSE {"campaigns", "logs", "webhooks"}

\* createRobustIterator is used by getCampaignsIterator, createIterator by
\* getAllItems and processBatches
Robust(e) == e \in {"getCampaignsIterator", "getAllCampaigns"}

\* faulty variant: the options are not handed on to the factory
HasErrorHookDropped(e) == FALSE

\* getCampaignsIterator passes an onError hook in the options
HasErrorHook(e) == e \in {"getCampaignsIterator", "getAllCampaigns"}

\* how the method consumes the iterator
Mode(e) ==
    CASE e \in {"getAllItems", "getAllCampaigns"} -> "toArray"
      [] e = "processBatches" -> "batches"
      [] OTHER -> "items"

Strategy == GetConfig(endpointName).strategy

\* per_page of every page request
PageSize == IF limit = 0 THEN GetConfig(endpointName).default_limit ELSE limit

\* ---- the backend: items 1 .. total, served by page number or by cursor
BackendKind(endpoint) ==
    IF endpoint \in {"logs", "campaign_logs"} THEN "cursor" ELSE "offset"

\* the k-th page of n items each of a resource of t items
PageItems(k, n, t) ==
    LET len == Min(n, t - (k - 1) * n)
    IN  [i \in 1 .. (IF len > 0 THEN len ELSE 0) |-> (k - 1) * n + i]

\* number of pages of a cursor-paged resource (an empty one has one page)
NumPages(n, t) == IF t = 0 THEN 1 ELSE (t + n - 1) \div n

\* the opaque cursor that leads to page k; 0 stands for null
CursorBase == 1000
CursorOf(k) == CursorBase + k

\* the page the backend serves for the parameters of a request
Serve(kind, params, t) ==
    IF kind = "offset"
    THEN [items |-> PageItems(IF params.page = 0 THEN 1 ELSE params.page,
                              params.per_page, t),
          next_cursor |-> 0]
    ELSE LET k == IF params.cursor = 0 THEN 1 ELSE params.cursor - CursorBase
         IN  [items |-> PageItems(k, params.per_page, t),
              next_cursor |-> IF k < NumPages(params.per_page, t)
                              THEN CursorOf(k + 1) ELSE 0]

\* ---- the two strategies: parameters of the next request, end test, advance
FirstCursor == [page |-> 1, token |-> 0]

BuildParams(strategy, c, n) ==
    IF strategy = "OFFSET"
    THEN [page |-> c.page, per_page |-> n, cursor |-> 0]
    ELSE [page |-> 0, per_page |-> n, cursor |-> c.token]

IsDone(strategy, resp, n) ==
    IF strategy = "OFFSET" THEN Len(resp.items) < n ELSE resp.next_cursor = 0

Advance(strategy, c, resp) ==
    IF strategy = "OFFSET"
    THEN [c EXCEPT !.page = @ + 1]
    ELSE [c EXCEPT !.token = resp.next_cursor]

\* a fetch that is in flight, and one that has settled
Issued(params) == [params |-> params, outcome |-> "pending", count |-> 0]
Pending == {i \in 1 .. Len(fetches) : fetches[i].outcome = "pending"}
Failures == {i \in 1 .. Len(fetches) : fetches[i].outcome = "failed"}

\* the fetch function built by createIterator / createRobustIterator calls
\* makeRequest with the page parameters; the request is in flight until
\* makeRequest returns the page or throws
IssueFetch ==
    /\ Len(fetches) < MaxFetches
    /\ itState' = "fetching"
    /\ fetches' = Append(fetches, Issued(BuildParams(Strategy, cursor,
                                                     PageSize)))
    /\ outstanding' = outstanding + 1

\* the consumer asks for the next item (or batch)
Pull ==
    /\ itState = "ready"
    /\ IF buffer # <<>>
       THEN /\ delivered' = Append(delivered, Head(buffer))
            /\ buffer' = Tail(buffer)
            /\ UNCHANGED << itState, fetches, outstanding >>
       ELSE IF exhausted
       THEN /\ itState' = "done"
            /\ UNCHANGED << buffer, delivered, fetches, outstanding >>
       ELSE /\ IssueFetch
            /\ UNCHANGED << buffer, delivered >>
    /\ UNCHANGED << entry, endpointName, limit, total, cursor, exhausted,
                    errors >>
    /\ UNCHANGED << now, cfg, policy, health, subs, ops, mockToken, authVars, pc, queueVars,
                    breaker,
                    retryVars, result, rateVars >>

\* makeRequest returned the page: the cursor advances, and the item (or
\* batch) the consumer is waiting for is yielded.  An iterator that is
\* eager asks for the following page at once.
Received(eager) ==
    /\ itState = "fetching"
    /\ LET n == Len(fetches)
           resp == Serve(BackendKind(endpointName), fetches[n].params, total)
           done == IsDone(Strategy, resp, PageSize)
           next == Advance(Strategy, cursor, resp)
           settled == [fetches EXCEPT ![n].outcome = "ok",
                                      ![n].count = Len(resp.items)]
       IN  /\ cursor' = next
           /\ exhausted' = done
           /\ IF eager /\ ~done /\ n < MaxFetches
              THEN /\ fetches' = Append(settled,
                           Issued(BuildParams(Strategy, next, PageSize)))
                   /\ UNCHANGED outstanding
              ELSE /\ fetches' = settled
                   /\ outstanding' = outstanding - 1
           /\ IF resp.items = <<>>
              THEN /\ itState' = IF done THEN "done" ELSE "ready"
                   /\ UNCHANGED << buffer, delivered >>
              ELSE IF Mode(entry) = "batches"
              THEN /\ itState' = "ready"
                   /\ delivered' = delivered \o resp.items
                   /\ UNCHANGED buffer
              ELSE /\ itState' = "ready"
                   /\ delivered' = Append(delivered, Head(resp.items))
                   /\ buffer' = Tail(resp.items)
    /\ UNCHANGED << entry, endpointName, limit, total, errors >>
    /\ UNCHANGED << now, cfg, policy, health, subs, ops, mockToken, authVars, pc, queueVars,
                    breaker,
                    retryVars, result, rateVars >>

\* faulty variant: the following page is fetched before it is asked for
PageReturnedPrefetching == Received(TRUE)

PageReturned == Received(FALSE)

\* makeRequest threw: the cursor stays, the error goes to the onError hook
\* of a robust iterator, which can be pulled again, and to the consumer of
\* a plain one, which ends
PageFailed ==
    /\ itState = "fetching"
    /\ Cardinality(Failures) < MaxErrors
    /\ fetches' = [fetches EXCEPT ![Len(fetches)].outcome = "failed"]
    /\ outstanding' = outstanding - 1
    /\ errors' = IF HasErrorHook(entry) THEN errors + 1 ELSE errors
    /\ itState' = IF Robust(entry) THEN "ready" ELSE "failed"
    /\ UNCHANGED << entry, endpointName, limit, total, cursor, exhausted,
                    buffer, delivered >>
    /\ UNCHANGED << now, cfg, policy, health, subs, ops, mockToken, authVars, pc, queueVars,
                    breaker,
                    retryVars, result, rateVars >>

\* the consumer stops pulling (toArray never does)
Abandon ==
    /\ itState = "ready"
    /\ Mode(entry) # "toArray"
    /\ itState' = "abandoned"
    /\ UNCHANGED << entry, endpointName, limit, total, cursor, exhausted,
                    buffer, delivered, fetches, errors, outstanding >>
    /\ UNCHANGED << now, cfg, policy, health, subs, ops, mockToken, authVars, pc, queueVars,
                    breaker,
                    retryVars, result, rateVars >>

\* getCircuitBreakerState: the state of the breaker, <<>> (null) without one
GetCircuitBreakerState ==
    IF HasCircuitBreaker THEN << breaker.state >> ELSE <<>>

\* updateRetryConfig(config): retryManager.updateConfig(config) puts the
\* fields given in config over the policy in force, in one step
PartialRetryConfigs ==
    {[baseDelay |-> 2000], [maxAttempts |-> 2, maxDelay |-> 1500]}

UpdateConfig(c) ==
    [f \in DOMAIN policy |-> IF f \in DOMAIN c THEN c[f] ELSE policy[f]]

UpdateRetryConfig(c) ==
    /\ policy' = UpdateConfig(c)
    /\ policy' # policy
    /\ UNCHANGED << now, cfg, health, subs, ops, mockToken, authVars, pc, queueVars,
                    breaker, retryVars, result, rateVars, pageVars >>

\* getRetryConfig
GetRetryConfig == policy

\* ============================================================ CakemailAPI
\* CakemailAPI is a BaseApiClient ("self") and builds every sub-API, each a
\* BaseApiClient of its own, from the same config; three of them are kept
SubApis == {"self", "campaigns", "contacts"}

\* sub-API a calls its makeRequest: the operation takes a slot of the
\* RequestQueue of a, or waits in it
SubRequest(a) ==
    /\ subs[a].running + subs[a].waiting < MaxPending
    /\ subs' = [subs EXCEPT ![a] =
                   IF @.running < QueueCapacity
                   THEN [@ EXCEPT !.running = @ + 1]
                   ELSE [@ EXCEPT !.waiting = @ + 1]]
    /\ UNCHANGED << now, cfg, policy, health, ops, mockToken, authVars, pc,
                    queueVars, breaker, retryVars, result, rateVars,
                    pageVars >>

\* an operation of sub-API a settles: its slot goes to the oldest waiter
\* of the same queue, or is freed
SubSettle(a) ==
    /\ subs[a].running > 0
    /\ subs' = [subs EXCEPT ![a] =
                   IF @.waiting > 0
                   THEN [@ EXCEPT !.waiting = @ - 1]
                   ELSE [@ EXCEPT !.running = @ - 1]]
    /\ UNCHANGED << now, cfg, policy, health, ops, mockToken, authVars, pc,
                    queueVars, breaker, retryVars, result, rateVars,
                    pageVars >>

\* ===================================================== request queue (4.1)
\* the waiter that gets a freed slot, and the waiters left
\* faulty variant: the newest waiter is taken
ShiftNewest(w) == [next |-> w[Len(w)], rest |-> SubSeq(w, 1, Len(w) - 1)]

Shift(w) == [next |-> Head(w), rest |-> Tail(w)]

\* requestQueue.add(fn): fn starts at once when a slot is free and waits
\* otherwise
QueueAdd ==
    /\ ops.added < MaxOps
    /\ LET id == ops.added + 1
       IN  ops' = IF Cardinality(ops.running) < QueueCapacity
                  THEN [ops EXCEPT !.added = id, !.running = @ \cup {id},
                                   !.started = Append(@, id)]
                  ELSE [ops EXCEPT !.added = id,
                                   !.waiting = Append(@, id)]
    /\ UNCHANGED << now, cfg, policy, health, subs, mockToken, authVars, pc,
                    queueVars, breaker, retryVars, result, rateVars,
                    pageVars >>

\* the function of operation id settled: its slot goes to a waiter, or is
\* freed
QueueSettle(id) ==
    /\ id \in ops.running
    /\ ops' = IF ops.waiting # <<>>
              THEN LET s == Shift(ops.waiting)
                   IN  [ops EXCEPT !.running = (@ \ {id}) \cup {s.next},
                                   !.waiting = s.rest,
                                   !.started = Append(@, s.next)]
              ELSE [ops EXCEPT !.running = @ \ {id}]
    /\ UNCHANGED << now, cfg, policy, health, subs, mockToken, authVars, pc,
                    queueVars, breaker, retryVars, result, rateVars,
                    pageVars >>

\* ========================================================= specification
\* configurations handed to the constructor; rate limiting is turned off in
\* Configs and PlainConfigs.  A client whose token is the mock token never
\* calls the token endpoint; the clients that authenticate run without a
\* breaker and without retries.
NoRateLimit == [enabled |-> FALSE, capacity |-> 0, interval |-> 0]
Configs ==
    [ maxConcurrentRequests : {1, 2},
      circuitBreaker : {<<>>, << [enabled |-> TRUE, failureThreshold |-> 2,
                                  resetTimeout |-> TickMs] >>},
      retry : {[maxAttempts |-> 3, baseDelay |-> 1000, maxDelay |-> 1500,
                 jitter |-> FALSE]},
      rateLimit : {NoRateLimit} ]
PlainConfigs ==
    [ maxConcurrentRequests : {0},
      circuitBreaker : {<<>>},
      retry : {[maxAttempts |-> 1, baseDelay |-> 1000, maxDelay |-> 1500,
                 jitter |-> FALSE]},
      rateLimit : {NoRateLimit} ]
\* clients with a rate limiter: one token per one or two clock ticks
RateConfigs ==
    [ maxConcurrentRequests : {2},
      circuitBreaker : {<<>>},
      retry : {[maxAttempts |-> 2, baseDelay |-> 1000, maxDelay |-> 1500,
                 jitter |-> FALSE]},
      rateLimit : [enabled : {TRUE}, capacity : {1, 2},
                   interval : {TickMs, 2 * TickMs}] ]

\* clients that authenticate, with one queue slot and one retry
AuthConfigs ==
    [ maxConcurrentRequests : {1},
      circuitBreaker : {<<>>},
      retry : {[maxAttempts |-> 2, baseDelay |-> 1000, maxDelay |-> 1500,
                 jitter |-> FALSE]},
      rateLimit : {NoRateLimit} ]

\* the state the constructor leaves, for the configuration in cfg
Constructed ==
    /\ now = 0
    /\ policy = cfg.retry
    /\ token = <<>>
    /\ tokenExpiry = <<>>
    /\ pc = [p \in Callers |-> "idle"]
    /\ retryCount = [p \in Callers |-> 0]
    /\ authLog = [p \in Callers |-> NoAuthLog]
    /\ rfFrom = [p \in Callers |-> "none"]
    /\ rejected = FALSE
    /\ forced = [p \in Callers |-> NoForcedReport]
    /\ waiting = <<>>
    /\ running = 0
    /\ breaker = [state |-> "CLOSED", failures |-> 0, openedAt |-> 0,
                  trial |-> 0]
    /\ attempt = [p \in Callers |-> 0]
    /\ lastResp = [p \in Callers |-> NoResponse]
    /\ only5xx = [p \in Callers |-> TRUE]
    /\ delays = [p \in Callers |-> <<>>]
    /\ waited = [p \in Callers |-> <<>>]
    /\ result = [p \in Callers |-> NoResult]
    /\ bucket = [credit |-> BucketCapacity, lastRefill |-> 0]
    /\ wakeAt = [p \in Callers |-> 0]
    /\ admitted = 0
    /\ health = [p \in Callers |-> NoReport]
    /\ subs = [a \in SubApis |-> [running |-> 0, waiting |-> 0]]
    /\ ops = [added |-> 0, running |-> {}, waiting |-> <<>>,
              started |-> <<>>]

\* no iterator has been built
NoIterator ==
    /\ entry = "none"
    /\ endpointName = "none"
    /\ limit = 0
    /\ total = 0
    /\ cursor = FirstCursor
    /\ itState = "none"
    /\ exhausted = FALSE
    /\ buffer = <<>>
    /\ delivered = <<>>
    /\ fetches = <<>>
    /\ errors = 0
    /\ outstanding = 0

Init ==
    /\ \/ mockToken = TRUE /\ cfg \in Configs
       \/ mockToken = FALSE /\ cfg \in PlainConfigs
    /\ Constructed
    /\ NoIterator

Next ==
    \/ \E p \in Callers : MakeRequest(p)
    \/ \E p \in Callers, r \in TokenResponses : PasswordAuthenticate(p, r)
    \/ \E p \in Callers : AuthWake(p)
    \/ \E p \in Callers, r \in TokenResponses : RefreshToken(p, r)
    \/ \E p \in Callers : Enqueue(p)
    \/ \E p \in Callers, resp \in ApiResponses : ExecuteRequest(p, resp)
    \/ \E p \in Callers : Backoff(p)
    \/ \E p \in Callers : Release(p)
    \/ \E p \in Callers : Return(p)
    \/ Tick

Spec == Init /\ [][Next]_vars

\* the request pipeline of a client whose token is the mock token, with
\* what the event loop guarantees: a queued add runs, timers fire, and every
\* fetch of an admitted operation settles.  The queue does not read the
\* clock, which stands still here: a breaker that opened stays open.
InitQueue == Init /\ mockToken

NextQueue ==
    \/ \E p \in Callers : MakeRequest(p)
    \/ \E p \in Callers : Enqueue(p)
    \/ \E p \in Callers, resp \in ApiResponses : ExecuteRequest(p, resp)
    \/ \E p \in Callers : Backoff(p)
    \/ \E p \in Callers : Release(p)

\* the request pipeline of a client whose token is the mock token, with the
\* clock
NextPipeline ==
    \/ \E p \in Callers : MakeRequest(p)
    \/ \E p \in Callers : Enqueue(p)
    \/ \E p \in Callers, resp \in ApiResponses : ExecuteRequest(p, resp)
    \/ \E p \in Callers : Backoff(p)
    \/ \E p \in Callers : Release(p)
    \/ Tick

PipelineSpec == InitQueue /\ [][NextPipeline]_vars

\* a client that authenticates in front of a queue that makes callers wait
InitAuth ==
    /\ mockToken = FALSE /\ cfg \in AuthConfigs
    /\ Constructed
    /\ NoIterator

AuthSpec == InitAuth /\ [][Next]_vars

\* the token calls of a client that authenticates, with what the event loop
\* guarantees: every token call settles and every timer fires
NextSignIn ==
    \/ \E p \in Callers : MakeRequest(p)
    \/ \E p \in Callers, r \in TokenResponses : PasswordAuthenticate(p, r)
    \/ \E p \in Callers : AuthWake(p)
    \/ \E p \in Callers, r \in TokenResponses : RefreshToken(p, r)
    \/ \E p \in Callers : Return(p)
    \/ Tick

SignInSpec ==
    /\ InitAuth /\ [][NextSignIn]_vars
    /\ \A p \in Callers :
          /\ WF_vars(\E r \in TokenResponses : PasswordAuthenticate(p, r))
          /\ WF_vars(\E r \in TokenResponses : RefreshToken(p, r))
          /\ WF_vars(AuthWake(p))

\* a client whose callers come one after the other: a makeRequest is called
\* when no other is under way
MakeRequestAlone(p) ==
    /\ \A q \in Callers \ {p} : pc[q] = "idle"
    /\ MakeRequest(p)

NextSolo ==
    \/ \E p \in Callers : MakeRequestAlone(p)
    \/ \E p \in Callers, r \in TokenResponses : PasswordAuthenticate(p, r)
    \/ \E p \in Callers : AuthWake(p)
    \/ \E p \in Callers, r \in TokenResponses : RefreshToken(p, r)
    \/ \E p \in Callers : Enqueue(p)
    \/ \E p \in Callers, resp \in ApiResponses : ExecuteRequest(p, resp)
    \/ \E p \in Callers : Backoff(p)
    \/ \E p \in Callers : Release(p)
    \/ \E p \in Callers : Return(p)
    \/ Tick

SoloSpec == InitAuth /\ [][NextSolo]_vars

\* a client that authenticates and has a breaker and a rate limiter, within
\* one reading of the clock
GuardedConfigs ==
    [ maxConcurrentRequests : {1},
      circuitBreaker : {<< [enabled |-> TRUE, failureThreshold |-> 2,
                            resetTimeout |-> TickMs] >>},
      retry : {[maxAttempts |-> 1, baseDelay |-> 1000, maxDelay |-> 1500,
                 jitter |-> FALSE]},
      rateLimit : [enabled : {TRUE}, capacity : {2}, interval : {TickMs}] ]

InitGuarded ==
    /\ mockToken = FALSE /\ cfg \in GuardedConfigs
    /\ Constructed
    /\ NoIterator

NextGuarded ==
    \/ \E p \in Callers : MakeRequest(p)
    \/ \E p \in Callers, r \in TokenResponses : PasswordAuthenticate(p, r)
    \/ \E p \in Callers : AuthWake(p)
    \/ \E p \in Callers, r \in TokenResponses : RefreshToken(p, r)
    \/ \E p \in Callers : Enqueue(p)
    \/ \E p \in Callers, resp \in ApiResponses : ExecuteRequest(p, resp)
    \/ \E p \in Callers : Release(p)
    \/ \E p \in Callers : Return(p)

GuardedSpec == InitGuarded /\ [][NextGuarded]_vars

\* the token calls of a client whose token is also refreshed by hand, with
\* forceRefreshToken, within one reading of the clock
NextForce ==
    \/ \E p \in Callers : MakeRequest(p)
    \/ \E p \in Callers : ForceRefreshToken(p)
    \/ \E p \in Callers, r \in TokenResponses : PasswordAuthenticate(p, r)
    \/ \E p \in Callers : AuthWake(p)
    \/ \E p \in Callers, r \in TokenResponses : RefreshToken(p, r)
    \/ \E p \in Callers : Return(p)

InitForce ==
    /\ mockToken = FALSE /\ cfg \in PlainConfigs
    /\ Constructed
    /\ NoIterator

ForceSpec == InitForce /\ [][NextForce]_vars

\* the request pipeline of a client with a rate limiter
InitRate ==
    /\ mockToken = TRUE /\ cfg \in RateConfigs
    /\ Constructed
    /\ NoIterator

NextRate ==
    \/ \E p \in Callers : MakeRequest(p)
    \/ \E p \in Callers : Enqueue(p)
    \/ \E p \in Callers, resp \in ApiResponses : ExecuteRequest(p, resp)
    \/ \E p \in Callers : Backoff(p)
    \/ \E p \in Callers : RateWake(p)
    \/ \E p \in Callers : Release(p)
    \/ Tick

RateSpec == InitRate /\ [][NextRate]_vars

\* a CakemailAPI whose sub-APIs are called concurrently
InitComposite ==
    /\ mockToken = TRUE /\ cfg \in Configs
    /\ Constructed
    /\ NoIterator

NextComposite ==
    \/ \E a \in SubApis : SubRequest(a)
    \/ \E a \in SubApis : SubSettle(a)

CompositeSpec == InitComposite /\ [][NextComposite]_vars

\* a client that retries up to three times, with jitter, behind one slot
BackoffConfigs ==
    [ maxConcurrentRequests : {1},
      circuitBreaker : {<<>>},
      retry : [maxAttempts : {4}, baseDelay : {1000},
               maxDelay : {1500, 3000, 30000}, jitter : {TRUE}],
      rateLimit : {NoRateLimit} ]

InitBackoff ==
    /\ mockToken = TRUE /\ cfg \in BackoffConfigs
    /\ Constructed
    /\ NoIterator

BackoffSpec == InitBackoff /\ [][NextQueue]_vars

\* a client whose retry policy is changed while its requests are in flight
PolicyConfigs ==
    [ maxConcurrentRequests : {2},
      circuitBreaker : {<<>>},
      retry : {[maxAttempts |-> 3, baseDelay |-> 1000, maxDelay |-> 4000,
                 jitter |-> FALSE]},
      rateLimit : {NoRateLimit} ]

InitPolicy ==
    /\ mockToken = TRUE /\ cfg \in PolicyConfigs
    /\ Constructed
    /\ NoIterator

NextPolicy ==
    \/ \E p \in Callers : MakeRequest(p)
    \/ \E p \in Callers : Enqueue(p)
    \/ \E p \in Callers, resp \in ApiResponses : ExecuteRequest(p, resp)
    \/ \E p \in Callers : Backoff(p)
    \/ \E p \in Callers : Release(p)
    \/ \E c \in PartialRetryConfigs : UpdateRetryConfig(c)

PolicySpec == InitPolicy /\ [][NextPolicy]_vars

\* the request queue of a client, operation by operation
InitOrder ==
    /\ mockToken = TRUE /\ cfg \in Configs
    /\ Constructed
    /\ NoIterator

NextOrder ==
    \/ QueueAdd
    \/ \E id \in 1..MaxOps : QueueSettle(id)

OrderSpec == InitOrder /\ [][NextOrder]_vars

\* a client that is probed with healthCheck
NextHealth ==
    \/ \E p \in Callers : HealthCheck(p)
    \/ \E p \in Callers, r \in TokenResponses : PasswordAuthenticate(p, r)
    \/ \E p \in Callers : AuthWake(p)
    \/ \E p \in Callers, r \in TokenResponses : RefreshToken(p, r)
    \/ \E p \in Callers : Enqueue(p)
    \/ \E p \in Callers, resp \in ApiResponses : ExecuteRequest(p, resp)
    \/ \E p \in Callers : Backoff(p)
    \/ \E p \in Callers : Release(p)
    \/ \E p \in Callers : Return(p)

HealthSpec == Init /\ [][NextHealth]_vars

\* a client whose calls are answered with every status, content type and
\* body, JSON or not
InitClassify ==
    /\ mockToken = TRUE
    /\ cfg = [maxConcurrentRequests |-> 2, circuitBreaker |-> <<>>,
              retry |-> [maxAttempts |-> 2, baseDelay |-> 1000,
                         maxDelay |-> 1500,
                 jitter |-> FALSE],
              rateLimit |-> NoRateLimit]
    /\ Constructed
    /\ NoIterator

NextClassify ==
    \/ \E p \in Callers : MakeRequest(p)
    \/ \E p \in Callers : Enqueue(p)
    \/ \E p \in Callers, resp \in AllApiResponses : ExecuteRequest(p, resp)
    \/ \E p \in Callers : Backoff(p)
    \/ \E p \in Callers : Release(p)

ClassifySpec == InitClassify /\ [][NextClassify]_vars

\* one iterator over one backend resource: the per_page asked by the caller
\* (0: none, the default of the endpoint is used) is within the limits of
\* the endpoint, and the resource is small, or has 50, 100 or 125 items
Limits == {0, 2, 50}
Totals == (0 .. MaxSmallTotal) \cup {50, 100, 125}

InitPage ==
    /\ mockToken = TRUE
    /\ cfg = [maxConcurrentRequests |-> 0, circuitBreaker |-> <<>>,
              retry |-> [maxAttempts |-> 1, baseDelay |-> 1000,
                         maxDelay |-> 1500,
                 jitter |-> FALSE],
              rateLimit |-> NoRateLimit]
    /\ Constructed
    /\ entry \in Entries
    /\ endpointName \in EndpointsOf(entry)
    /\ limit \in {l \in Limits : l <= GetConfig(endpointName).max_limit}
    /\ total \in Totals
    /\ cursor = FirstCursor
    /\ itState = "ready"
    /\ exhausted = FALSE
    /\ buffer = <<>>
    /\ delivered = <<>>
    /\ fetches = <<>>
    /\ errors = 0
    /\ outstanding = 0

NextPage ==
    \/ Pull
    \/ PageReturned
    \/ PageFailed
    \/ Abandon

PageSpec == InitPage /\ [][NextPage]_vars

LiveSpec ==
    /\ InitQueue /\ [][NextQueue]_vars
    /\ \A p \in Callers :
          /\ WF_vars(Enqueue(p))
          /\ WF_vars(\E resp \in ApiResponses : ExecuteRequest(p, resp))
          /\ WF_vars(Backoff(p))
          /\ WF_vars(Release(p))

\* ================================================================ claims
\* operations that hold a queue slot: admitted and not yet completed
InProgress ==
    {p \in Callers : pc[p] \in {"rate_wait", "net", "backoff", "release"}}

\* the configured values the claims speak of
MaxConcurrent ==
    IF cfg.maxConcurrentRequests > 0 THEN cfg.maxConcurrentRequests
    ELSE DefaultMaxConcurrent
BreakerEnabled == cfg.circuitBreaker # <<>> /\ cfg.circuitBreaker[1].enabled
MaxAttempts == cfg.retry.maxAttempts

\* caller p leaves the queue in this step: its queued function starts
Starts(p) ==
    /\ pc[p] \in {"enqueue", "queued"}
    /\ pc'[p] \notin {"enqueue", "queued"}

FailsFast(p) ==
    /\ pc'[p] = "release"
    /\ result'[p] = CircuitOpenError
    /\ attempt'[p] = 0

\* C1: the number of operations in progress (admitted by the queue and not
\* yet completed) never exceeds maxConcurrentRequests (10 when not set).
C1_QueueBound == Cardinality(InProgress) <= MaxConcurrent

C1_Witness ==
    /\ waiting # <<>>
    /\ Cardinality(InProgress) = cfg.maxConcurrentRequests

\* C2: every operation waiting for a slot is eventually admitted and
\* completes, provided every admitted operation finishes.
C2_NoStarvation ==
    \A p \in Callers : (pc[p] = "queued") ~> (pc[p] = "release")

C2_Witness ==
    \E p \in Callers : pc[p] = "release" /\ waiting # <<>>

\* C3: in Closed the failure count stays below failure_threshold (reaching
\* it opens the breaker), and a call that starts while the breaker is Open
\* and reset_timeout has not elapsed fails with CircuitOpenError without
\* invoking its operation.
C3_TripAndFastFail ==
    /\ [](BreakerEnabled /\ breaker.state = "CLOSED"
            => breaker.failures < cfg.circuitBreaker[1].failureThreshold)
    /\ [][\A p \in Callers :
            ( /\ BreakerEnabled
              /\ Starts(p)
              /\ breaker.state = "OPEN"
              /\ now - breaker.openedAt < cfg.circuitBreaker[1].resetTimeout )
            => FailsFast(p)]_vars

C3_Witness ==
    /\ breaker.state = "OPEN"
    /\ breaker.failures = cfg.circuitBreaker[1].failureThreshold
    /\ \E p \in Callers : pc[p] = "release" /\ result[p] = CircuitOpenError

\* C4: the call that starts when reset_timeout has elapsed in Open becomes
\* the HalfOpen trial and is invoked; every call that starts while the
\* breaker is HalfOpen fails fast without invoking its operation, so there
\* is one live trial at most.
C4_SingleTrial ==
    /\ [](BreakerEnabled /\ breaker.state = "HALF_OPEN"
            => breaker.trial \in Callers /\ pc[breaker.trial] \in {"net", "backoff"})
    /\ [][\A p \in Callers :
            /\ ( /\ BreakerEnabled /\ Starts(p)
                 /\ breaker.state = "OPEN"
                 /\ now - breaker.openedAt >= cfg.circuitBreaker[1].resetTimeout )
               => ( /\ breaker'.state = "HALF_OPEN"
                    /\ breaker'.trial = p
                    /\ pc'[p] = "net" /\ attempt'[p] = 1 )
            /\ (BreakerEnabled /\ Starts(p) /\ breaker.state = "HALF_OPEN")
               => (FailsFast(p) /\ breaker' = breaker)]_vars

C4_Witness ==
    /\ breaker.state = "HALF_OPEN"
    /\ \E p \in Callers :
          /\ p # breaker.trial
          /\ pc[p] = "release" /\ result[p] = CircuitOpenError

NonDecreasing(seq) ==
    \A i \in 1 .. Len(seq) - 1 : seq[i] <= seq[i + 1]

Is2xx(resp) == resp.transport = "ok" /\ resp.status >= 200 /\ resp.status < 300

\* C5: a request whose attempts met only 5xx responses and then a 2xx
\* returns the success value after N + 1 invocations with non-decreasing
\* backoff delays, and a request is given up on a 5xx only when all
\* max_attempts attempts are used.
C5_RetrySuccess ==
    \A p \in Callers :
        (pc[p] = "release" /\ only5xx[p] /\ lastResp[p].transport = "ok")
        => IF Is2xx(lastResp[p])
           THEN /\ result[p].kind = "ok"
                /\ result[p].attempts = attempt[p]
                /\ attempt[p] <= MaxAttempts
                /\ Len(delays[p]) = attempt[p] - 1
                /\ NonDecreasing(delays[p])
           ELSE attempt[p] = MaxAttempts

C5_Witness ==
    \E p \in Callers :
        /\ pc[p] = "release" /\ only5xx[p] /\ Is2xx(lastResp[p])
        /\ attempt[p] = 3 /\ delays[p] = << 1000, 1500 >>

\* a failure the retry manager must not retry: a 4xx other than 429, or the
\* authentication failure of executeRequest
NotRetryable(resp) ==
    \/ resp.transport = "none"
    \/ /\ resp.transport = "ok"
       /\ resp.status >= 400 /\ resp.status < 500 /\ resp.status # 429

\* C6: an attempt that fails with a 4xx other than 429, or with an
\* authentication failure, ends the request at once: that error is
\* surfaced, no backoff follows and no further attempt is made.
C6_NoRetryOnClientError ==
    \A p \in Callers :
        NotRetryable(lastResp[p])
        => /\ pc[p] = "release"
           /\ result[p].kind \in {"ApiError", "AuthenticationError"}
           /\ result[p].status = lastResp[p].status
           /\ result[p].attempts = attempt[p]
           /\ Len(delays[p]) = attempt[p] - 1

C6_Witness ==
    \E p \in Callers :
        /\ lastResp[p].transport = "ok" /\ lastResp[p].status = 404
        /\ attempt[p] = 1 /\ MaxAttempts = 3
        /\ result[p].kind = "ApiError"

RetryableFailure(resp) ==
    \/ resp.transport \in {"error", "timeout"}
    \/ resp.transport = "ok" /\ (resp.status >= 500 \/ resp.status = 429)

\* C7: the operation is never invoked more than max_attempts times, and a
\* request given up on a retryable failure has used all max_attempts
\* attempts and surfaces the error of the last one, tagged max_attempts.
C7_RetryExhaustion ==
    \A p \in Callers :
        /\ attempt[p] <= MaxAttempts
        /\ (pc[p] = "release" /\ RetryableFailure(lastResp[p]))
           => /\ attempt[p] = MaxAttempts
              /\ result[p].attempts = MaxAttempts
              /\ result[p].kind =
                    (IF lastResp[p].transport = "ok" THEN "ApiError"
                     ELSE "NetworkError")
              /\ result[p].status = lastResp[p].status
              /\ result[p].timeout = (lastResp[p].transport = "timeout")

C7_Witness ==
    \E p \in Callers :
        /\ pc[p] = "release" /\ attempt[p] = 3 /\ ~only5xx[p]
        /\ lastResp[p].transport = "ok" /\ lastResp[p].status = 429

\* C8: at most one call to the token endpoint (password grant or refresh
\* grant) is in flight at any time.
C8_SerializedAuthentication ==
    Cardinality({p \in Callers : pc[p] \in {"pw_fetch", "rf_fetch"}}) <= 1

\* ensureValidToken of caller p completes without error in this step
Completes(p) ==
    /\ ~mockToken
    /\ pc[p] \in {"idle", "pw_fetch", "rf_fetch"}
    /\ pc'[p] = "enqueue"

\* C9 as stated: whenever ensureValidToken completes without error the
\* stored expiry is strictly later than the current time, whatever
\* expires_in the token endpoint returned.
C9_NeverExpired ==
    [][\A p \in Callers :
          Completes(p) => /\ token' # <<>> /\ tokenExpiry' # <<>>
                          /\ tokenExpiry'[1] > now']_vars

\* C9 amended: whenever ensureValidToken completes without error a token is
\* stored, and its stored expiry is strictly later than the current time
\* provided its expires_in exceeds the 60 second safety margin.
C9_NeverExpiredBeyondMargin ==
    [][\A p \in Callers :
          Completes(p) => /\ token' # <<>> /\ tokenExpiry' # <<>>
                          /\ (token'[1].expires_in * 1000 > ExpiryBufferMs
                              => tokenExpiry'[1] > now')]_vars

C9_Witness ==
    \E p \in Callers :
        /\ ~mockToken /\ pc[p] = "enqueue" /\ now > 0
        /\ token # <<>> /\ token[1].expires_in = 120
        /\ tokenExpiry[1] > now

\* caller p sends a refresh-grant call in this step
SendsRefresh(p) ==
    /\ pc'[p] = "rf_fetch"
    /\ pc[p] # "rf_fetch" \/ rfFrom'[p] # rfFrom[p]

\* C10: a refresh call answered 401 or 403 clears token and tokenExpiry,
\* the next ensureValidToken goes to password authentication, and no
\* refresh-grant call is sent with a rejected refresh token afterwards
\* (a refresh-grant call carries the refresh token stored at that moment).
C10_RefreshRejection ==
    /\ [](rejected => token = <<>> /\ tokenExpiry = <<>>)
    /\ [][\A p \in Callers :
            /\ SendsRefresh(p) => ~rejected'
            /\ (rejected /\ pc[p] = "idle" /\ pc'[p] # "idle")
               => pc'[p] = "pw_fetch"]_vars

C10_Witness ==
    /\ rejected
    /\ token = <<>> /\ tokenExpiry = <<>>
    /\ \E p \in Callers : pc[p] = "idle"
    /\ \E p \in Callers : pc[p] = "pw_fetch" /\ retryCount[p] = 0

\* the refresh-grant call of caller p fails in this step
RefreshFails(p) ==
    /\ pc[p] = "rf_fetch"
    /\ pc'[p] # "enqueue"
    /\ << pc'[p], rfFrom'[p] >> # << pc[p], rfFrom[p] >>

\* C11 as stated: whenever a refresh attempt made by ensureValidToken or
\* authenticate fails, the caller goes on to password authentication and
\* the refresh error is not surfaced.
C11_RefreshFallback ==
    [][\A p \in Callers :
          RefreshFails(p) => /\ pc'[p] = "pw_fetch"
                             /\ result'[p] = result[p]]_vars

\* C11 amended: a failed refresh attempt is never surfaced: the caller goes
\* on to password authentication, or, when the refresh was made by
\* ensureValidToken and another caller has stored a fresh token with a
\* refresh token meanwhile, to one refresh attempt by authenticate whose
\* failure leads to password authentication; makeRequest rejects with an
\* authentication error only when a password authentication call failed.
C11_RefreshFallbackOrSecondRefresh ==
    [][\A p \in Callers :
          /\ RefreshFails(p)
             => /\ result'[p] = result[p]
                /\ \/ pc'[p] = "pw_fetch"
                   \/ /\ pc'[p] = "rf_fetch"
                      /\ rfFrom[p] = "ensureValidToken"
                      /\ rfFrom'[p] = "authenticate"
                      /\ token' # <<>> /\ token'[1].refresh
                      /\ now < tokenExpiry'[1] - RefreshWindowMs
          /\ (pc[p] # "done" /\ pc'[p] = "done") => pc[p] = "pw_fetch"]_vars

C11_Witness ==
    \E p \in Callers :
        /\ pc[p] = "pw_fetch" /\ rfFrom[p] = "ensureValidToken"
        /\ token # <<>> /\ ~rejected

\* acquire() returns to caller p in this step
AcquireReturns(p) ==
    /\ HasRateLimiter
    /\ pc[p] \in {"enqueue", "queued", "backoff", "rate_wait"}
    /\ pc'[p] = "net"

\* acquire() suspends caller p in this step (at its first check or at a
\* later one)
Suspends(p) ==
    /\ pc'[p] = "rate_wait"
    /\ pc[p] # "rate_wait" \/ wakeAt'[p] # wakeAt[p]

\* C12: acquire() returns only at a time at which the bucket, refilled at
\* the refill rate and capped at capacity, holds a whole token, and never
\* before the end of the wait it computed; it suspends only when less than
\* one token is there, and then for exactly the time the deficit takes to
\* refill.
C12_NeverAdmitsEarly ==
    [][\A p \in Callers :
          /\ AcquireReturns(p)
             => /\ Refilled(bucket).credit >= cfg.rateLimit.interval
                /\ pc[p] = "rate_wait" => now >= wakeAt[p]
          /\ Suspends(p)
             => /\ Refilled(bucket).credit < cfg.rateLimit.interval
                /\ wakeAt'[p] = now + (cfg.rateLimit.interval
                                        - Refilled(bucket).credit)]_vars

C12_Witness ==
    /\ admitted > cfg.rateLimit.capacity
    /\ \E p \in Callers : pc[p] = "net" /\ bucket.lastRefill = now
    /\ \E p \in Callers : pc[p] = "rate_wait"

\* C13: under every interleaving of the callers sharing the limiter the
\* budget stays within [0, capacity], every returned acquire has debited
\* exactly one token, and the acquires admitted up to any time t number at
\* most capacity + refill_rate * t (tokens counted in milliseconds of
\* refill).
C13_BudgetIntegrity ==
    /\ [](HasRateLimiter
            => /\ bucket.credit >= 0
               /\ bucket.credit <= cfg.rateLimit.capacity * cfg.rateLimit.interval
               /\ admitted * cfg.rateLimit.interval + bucket.credit
                     <= cfg.rateLimit.capacity * cfg.rateLimit.interval
                        + bucket.lastRefill
               /\ admitted * cfg.rateLimit.interval
                     <= cfg.rateLimit.capacity * cfg.rateLimit.interval + now)
    /\ [][admitted' # admitted
            => /\ admitted' = admitted + 1
               /\ bucket'.credit
                     = Refilled(bucket).credit - cfg.rateLimit.interval]_vars

C13_Witness ==
    /\ admitted >= 2
    /\ bucket.credit = 0
    /\ \E p, q \in Callers :
          p # q /\ pc[p] = "rate_wait" /\ pc[q] = "rate_wait"

\* callers with an outbound network call in flight: a token-endpoint call
\* or an API call
NetworkCalls == {p \in Callers : pc[p] \in {"pw_fetch", "rf_fetch", "net"}}

\* C14: the number of outbound network calls in flight, API calls and
\* token-endpoint calls of ensureValidToken together, never exceeds a
\* constant that does not grow with the number of callers: the capacity of
\* the request queue, the client's only backpressure mechanism.
C14_BoundedNetworkCalls == Cardinality(NetworkCalls) <= MaxConcurrent

\* C19: every admitted operation releases its slot exactly once when it
\* finishes, whatever its outcome (a value, an API or network error, a
\* rejection by the circuit breaker, exhausted retries): the in-flight
\* counter always equals the number of admitted operations that have not
\* finished, so it is never negative and is 0 when none is running.
C19_SlotReleasedOnce ==
    /\ running = Cardinality(InProgress)
    /\ running >= 0
    /\ Len(waiting) = Cardinality({p \in Callers : pc[p] = "queued"})

C19_Witness ==
    /\ running = 0
    /\ breaker.state = "OPEN"
    /\ \A p \in Callers : pc[p] = "idle"

\* an API call of caller p is answered 401
Answered401(p) ==
    /\ pc[p] = "net"
    /\ pc'[p] # "net"
    /\ lastResp'[p].transport = "ok"
    /\ lastResp'[p].status = 401

\* C20: when an API call made by makeRequest fails with an authentication
\* failure (401), the client re-authenticates once and repeats the call once
\* before any error is surfaced: the first 401 of a request is followed by a
\* call to the token endpoint, not by the error.
C20_ReauthenticatesOn401 ==
    [][\A p \in Callers :
          (Answered401(p) /\ attempt[p] = 1)
          => /\ pc'[p] \in {"pw_fetch", "rf_fetch"}
             /\ result'[p] = NoResult]_vars

\* ---- pagination
OffsetPaged == BackendKind(endpointName) = "offset"
CursorPaged == BackendKind(endpointName) = "cursor"
OkFetches == SelectSeq(fetches, LAMBDA f : f.outcome = "ok")
OkBefore(j) == Cardinality({i \in 1 .. (j - 1) : fetches[i].outcome = "ok"})
FirstItems(n) == [i \in 1 .. n |-> i]

\* page requests toArray needs for an offset-paged resource
OffsetFetches == (total \div PageSize) + 1

\* C15: for an offset-paged resource with T items and per_page P, toArray()
\* returns exactly the T items in original order, fetching pages 1, 2, ...
\* and stopping after the first page that holds fewer than P items; for
\* T = 125 and P = 50 these are exactly 3 page fetches (50, 50, 25).
C15_OffsetCompleteness ==
    (OffsetPaged /\ Mode(entry) = "toArray" /\ itState = "done")
    => /\ delivered = FirstItems(total)
       /\ Len(OkFetches) = OffsetFetches
       /\ \A i \in 1 .. OffsetFetches :
             /\ OkFetches[i].params.page = i
             /\ OkFetches[i].params.per_page = PageSize
             /\ OkFetches[i].count =
                   IF i < OffsetFetches THEN PageSize
                   ELSE total - (OffsetFetches - 1) * PageSize
       /\ Failures = {} => Len(fetches) = OffsetFetches
       /\ (total = 125 /\ PageSize = 50 /\ Failures = {})
          => [i \in 1 .. Len(fetches) |-> fetches[i].count] = <<50, 50, 25>>

C15_Witness ==
    /\ OffsetPaged /\ Mode(entry) = "toArray" /\ itState = "done"
    /\ total = 125 /\ PageSize = 50
    /\ Len(fetches) = 3
    /\ Len(delivered) = 125

\* C16: for a cursor-paged resource of n pages whose last page returns a
\* null next-cursor, the iterator issues exactly n page fetches, each with
\* the cursor returned by the page before it, and never a request after
\* the n-th page has arrived.
C16_CursorTermination ==
    CursorPaged
    => /\ \A j \in 1 .. Len(fetches) :
             /\ OkBefore(j) < NumPages(PageSize, total)
             /\ fetches[j].params.cursor =
                   IF OkBefore(j) = 0 THEN 0 ELSE CursorOf(OkBefore(j) + 1)
       /\ itState = "done"
          => /\ Len(OkFetches) = NumPages(PageSize, total)
             /\ Failures = {} => Len(fetches) = NumPages(PageSize, total)

C16_Witness ==
    /\ CursorPaged /\ itState = "done"
    /\ NumPages(PageSize, total) = 3
    /\ Len(fetches) = 3
    /\ fetches[3].params.cursor = CursorOf(3)

\* a page fetch of the iterator fails
FetchFails ==
    /\ itState = "fetching"
    /\ Cardinality(Failures') > Cardinality(Failures)

\* C17: when a page fetch made by an iterator fails, the failure is
\* reported through the caller's onError hook and the pagination cursor
\* (page number or opaque cursor) keeps the value it had before the failed
\* fetch, so that no page is skipped or delivered twice afterwards.
C17_FailedFetchKeepsCursor ==
    /\ [](delivered = FirstItems(Len(delivered)))
    /\ [][FetchFails
          => /\ cursor' = cursor
             /\ exhausted' = exhausted
             /\ delivered' = delivered
             /\ buffer' = buffer
             /\ entry \in {"getCampaignsIterator", "getAllCampaigns"}
                => errors' = errors + 1]_vars

C17_Witness ==
    /\ entry = "getAllCampaigns"
    /\ itState = "done"
    /\ errors = 1
    /\ Len(fetches) = 4
    /\ fetches[2].outcome = "failed"
    /\ total = 125
    /\ delivered = FirstItems(125)

\* C18: an iterator has at most one page fetch outstanding at any time;
\* a fetch is issued only after the one before it has returned and only
\* when the consumer asks for an item beyond the pages fetched so far, so
\* a consumer that stops after page k causes no fetch of page k+1.
C18_SequentialPullBased ==
    /\ [](outstanding <= 1 /\ outstanding = Cardinality(Pending))
    /\ [][/\ Len(fetches') > Len(fetches)
             => /\ Pending = {}
                /\ buffer = <<>>
                /\ itState = "ready"
                /\ itState' = "fetching"
          /\ itState \in {"abandoned", "done", "failed"}
             => fetches' = fetches]_vars

C18_Witness ==
    /\ itState = "abandoned"
    /\ Len(fetches) = 1
    /\ fetches[1].outcome = "ok"
    /\ buffer = <<>>
    /\ ~exhausted
    /\ total > PageSize

\* C21: every outcome of one network attempt in executeRequest maps to
\* exactly one result: a transport failure or timeout to a network error, a
\* non-2xx status to a structured API error with that status and the parsed
\* body, a 2xx with a JSON content type to the parsed body, and any other
\* 2xx to {success: true, status}.
C21_ClassificationTotal ==
    \A p \in Callers :
        (pc[p] = "release" /\ lastResp[p] \in AllApiResponses)
        => LET r == lastResp[p]
               res == result[p]
           IN  /\ r.transport \in {"error", "timeout"}
                  => res.kind = "NetworkError"
               /\ (r.transport = "ok" /\ ~Is2xx(r))
                  => /\ res.kind \in {"ApiError", "AuthenticationError"}
                     /\ res.status = r.status
                     /\ res.value \in {"data", "detail"}
               /\ (Is2xx(r) /\ r.jsonType)
                  => res.kind = "ok" /\ res.value = "data"
               /\ (Is2xx(r) /\ ~r.jsonType)
                  => /\ res.kind = "ok" /\ res.value = "success"
                     /\ res.status = r.status

\* the network call of caller p exceeds the per-call timeout
TimesOut(p) ==
    /\ pc[p] = "net"
    /\ pc'[p] # "net"
    /\ lastResp'[p].transport = "timeout"

\* C22: when a network call exceeds the per-call timeout, the attempt ends
\* with a timeout-classified network error, which the retry manager treats
\* as retryable: the call is attempted again while attempts remain, and the
\* timeout error is surfaced only by the last attempt.
C22_TimeoutRetried ==
    [][\A p \in Callers :
          /\ TimesOut(p)
             => IF attempt[p] < MaxAttempts
                THEN /\ pc'[p] = "backoff"
                     /\ result'[p] = NoResult
                ELSE /\ pc'[p] = "release"
                     /\ result'[p].kind = "NetworkError"
                     /\ result'[p].timeout
                     /\ result'[p].attempts = MaxAttempts
          /\ (pc[p] = "backoff" /\ pc'[p] # "backoff"
                /\ lastResp[p].transport = "timeout")
             => attempt'[p] = attempt[p] + 1]_vars

C22_Witness ==
    \E p \in Callers :
        /\ pc[p] = "backoff"
        /\ lastResp[p].transport = "timeout"
        /\ attempt[p] = 2
        /\ Len(delays[p]) = 2
        /\ MaxAttempts = 3

\* the makeRequest of caller p returns or throws in this step
MakeRequestEnds(p) == pc[p] \in {"release", "done"} /\ pc'[p] = "idle"

\* C23: healthCheck performs exactly one makeRequest and never throws: it
\* returns its report when that call ends, 'healthy' with authenticated
\* true iff the call succeeded, otherwise 'unhealthy', with authenticated
\* false exactly when the error is a Cakemail error with status 401 or is
\* not a Cakemail error.
C23_HealthProbeReports ==
    [][\A p \in Callers :
          /\ (health[p] = Probing /\ pc'[p] # "idle") => health'[p] = Probing
          /\ (health[p] = Probing /\ MakeRequestEnds(p))
             => LET res == result[p]
                    rep == health'[p]
                    cake == res.kind \in {"ApiError", "AuthenticationError",
                                          "NetworkError"}
                    code == IF res.kind = "AuthenticationError" THEN 401
                            ELSE res.status
                IN  /\ rep.status \in {"healthy", "unhealthy"}
                    /\ rep.status = "healthy" <=> res.kind = "ok"
                    /\ res.kind = "ok" => rep.authenticated
                    /\ res.kind # "ok"
                       => (~rep.authenticated <=> (~cake \/ code = 401))
          /\ health'[p] # health[p]
             => \/ pc[p] = "idle" /\ health'[p] = Probing
                \/ health[p] = Probing /\ MakeRequestEnds(p)]_vars

C23_Witness ==
    \E p, q \in Callers :
        /\ health[p].status = "unhealthy" /\ health[p].authenticated
        /\ health[p].errorType = "NetworkError"
        /\ health[q].status = "unhealthy" /\ ~health[q].authenticated
        /\ health[q].errorType = "UnknownError"

\* requests in flight in the whole CakemailAPI
RECURSIVE InFlight(_)
InFlight(S) ==
    IF S = {} THEN 0
    ELSE LET a == CHOOSE x \in S : TRUE
         IN  subs[a].running + InFlight(S \ {a})

\* C24: the Request Queue bounds the in-flight operations of the whole
\* client: for a CakemailAPI instance the requests in flight through all of
\* its sub-APIs together never exceed maxConcurrentRequests.
C24_OneBoundForWholeClient == InFlight(SubApis) <= MaxConcurrent

\* caller p sends the network call of a retry attempt in this step
SendsRetry(p) == pc[p] = "backoff" /\ pc'[p] = "net"

\* the stored credential was not expired when it was acquired
LivedOnce == token # <<>> /\ token[1].expires_in * 1000 > ExpiryBufferMs

\* C25: every makeRequest passes queue admission, circuit-breaker gate and
\* retry manager in this order, and inside every retry attempt rate-limiter
\* acquire, credential ensureValid and network call in this order: a valid
\* credential is ensured anew in each attempt, so no retry attempt is sent
\* with a credential that has expired since the first.
C25_PipelineOrder ==
    [][\A p \in Callers :
          (SendsRetry(p) /\ ~mockToken /\ LivedOnce)
          => ~GetTokenStatus(token, tokenExpiry).isExpired]_vars

\* C26: when the single HalfOpen trial succeeds the breaker becomes Closed
\* with consecutive_failures = 0; when it fails the breaker becomes Open
\* with opened_at set to the time of the failure, so that a full
\* reset_timeout has to elapse again before the next trial; HalfOpen has no
\* other successor, and only the trial's outcome ends it.
C26_TrialOutcome ==
    [][/\ (BreakerEnabled /\ breaker.state = "HALF_OPEN" /\ breaker' # breaker)
          => LET p == breaker.trial
             IN  /\ pc[p] = "net" /\ pc'[p] = "release"
                 /\ IF result'[p].kind = "ok"
                    THEN /\ breaker'.state = "CLOSED"
                         /\ breaker'.failures = 0
                    ELSE /\ breaker'.state = "OPEN"
                         /\ breaker'.openedAt = now
       /\ (BreakerEnabled /\ breaker.state = "OPEN"
             /\ breaker'.state # "OPEN")
          => /\ breaker'.state = "HALF_OPEN"
             /\ now - breaker.openedAt
                  >= cfg.circuitBreaker[1].resetTimeout]_vars

C26_Witness ==
    /\ breaker.state = "CLOSED"
    /\ breaker.failures = 0
    /\ \E p, q \in Callers :
          /\ pc[p] = "release" /\ result[p].kind = "ok"
          /\ pc[q] = "release" /\ result[q] = CircuitOpenError

\* the operation of caller p (all its attempts) settles in this step
Settles(p) == pc[p] = "net" /\ pc'[p] = "release"

\* C27: while the breaker is Closed, consecutive_failures counts the
\* failures since the last success and stays below failure_threshold: every
\* failure adds one, every success resets it to 0, nothing else changes it,
\* and the breaker opens exactly with the failure that makes the count
\* reach failure_threshold, also when concurrent calls complete interleaved.
C27_ClosedCounting ==
    /\ [](BreakerEnabled /\ breaker.state = "CLOSED"
            => /\ breaker.failures >= 0
               /\ breaker.failures < cfg.circuitBreaker[1].failureThreshold)
    /\ [][(BreakerEnabled /\ breaker.state = "CLOSED")
          => /\ \A p \in Callers :
                  Settles(p)
                  => IF result'[p].kind = "ok"
                     THEN /\ breaker'.state = "CLOSED"
                          /\ breaker'.failures = 0
                     ELSE /\ breaker'.failures = breaker.failures + 1
                          /\ breaker'.state =
                               IF breaker.failures + 1
                                    >= cfg.circuitBreaker[1].failureThreshold
                               THEN "OPEN" ELSE "CLOSED"
             /\ (\A p \in Callers : ~Settles(p)) => breaker' = breaker]_vars

C27_Witness ==
    /\ breaker.state = "CLOSED"
    /\ breaker.failures = 0
    /\ now = 0
    /\ \E p, q \in Callers :
          /\ pc[p] = "release" /\ result[p].kind = "ApiError"
          /\ pc[q] = "release" /\ result[q].kind = "ok"

Abs(x) == IF x < 0 THEN 0 - x ELSE x

\* C28: the base delay before attempt n (n >= 2) is
\* min(base_delay * 2^(n-2), max_delay); it is non-decreasing in n and never
\* exceeds max_delay, and the jittered delay actually waited stays within a
\* bounded range (half the base delay) around that base delay.
C28_BackoffSchedule ==
    \A p \in Callers :
        /\ Len(waited[p]) = Len(delays[p])
        /\ pc[p] \in {"net", "backoff", "release"}
           => Len(delays[p]) \in {attempt[p] - 1, attempt[p]}
        /\ \A i \in 1 .. Len(delays[p]) :
              LET n == i + 1
                  exp == cfg.retry.baseDelay * (2 ^ (n - 2))
                  base == IF exp <= cfg.retry.maxDelay THEN exp
                          ELSE cfg.retry.maxDelay
              IN  /\ delays[p][i] = base
                  /\ delays[p][i] <= cfg.retry.maxDelay
                  /\ i > 1 => delays[p][i - 1] <= delays[p][i]
                  /\ 2 * Abs(waited[p][i] - base) <= base
                  /\ waited[p][i] >= 0

C28_Witness ==
    \E p \in Callers :
        /\ cfg.retry.maxDelay = 3000
        /\ delays[p] = << 1000, 2000, 3000 >>
        /\ waited[p] = << 500, 3000, 3000 >>

BreakerUntouched ==
    breaker = [state |-> "CLOSED", failures |-> 0, openedAt |-> 0,
               trial |-> 0]

\* C29: when the circuit breaker is not enabled (the default without
\* config.circuitBreaker) no request is ever failed fast and
\* getCircuitBreakerState returns null; when rate limiting is turned off no
\* request is ever delayed by the limiter; with both off each request goes
\* from the queue straight to the retry manager and its network call.
C29_DisabledStagesSkipped ==
    /\ [](~BreakerEnabled
            => /\ \A p \in Callers : result[p].kind # "CircuitOpenError"
               /\ BreakerUntouched
               /\ GetCircuitBreakerState = <<>>)
    /\ [](~cfg.rateLimit.enabled
            => /\ \A p \in Callers : pc[p] # "rate_wait" /\ wakeAt[p] = 0
               /\ admitted = 0)
    /\ [][\A p \in Callers :
            (~BreakerEnabled /\ ~cfg.rateLimit.enabled /\ Starts(p)
               /\ (mockToken \/ token # <<>>))
            => pc'[p] = "net" /\ attempt'[p] = 1]_vars

C29_Witness ==
    /\ cfg.circuitBreaker = <<>>
    /\ ~cfg.rateLimit.enabled
    /\ \E p, q \in Callers :
          /\ pc[p] = "release" /\ result[p].kind = "ApiError"
          /\ result[p].attempts = 3
          /\ pc[q] = "net" /\ attempt[q] = 3

\* a password grant or refresh grant of caller p succeeds in this step
StoresToken(p) ==
    /\ pc[p] \in {"pw_fetch", "rf_fetch"}
    /\ pc'[p] = "enqueue"

\* C30: after every successful password authentication or refresh the
\* stored tokenExpiry is acquisition time + expires_in seconds - 60 seconds,
\* so the credential counts as expired a fixed interval before its true
\* expiry; getTokenStatus.isExpired is true from that stored instant on.
C30_ExpirySafetyMargin ==
    /\ [](token # <<>>
            => /\ tokenExpiry # <<>>
               /\ tokenExpiry[1] + 60000 - token[1].expires_in * 1000
                     \in 0 .. now
               /\ GetTokenStatus(token, tokenExpiry).isExpired
                     <=> now >= tokenExpiry[1])
    /\ [][\A p \in Callers :
            StoresToken(p)
            => /\ token' # <<>> /\ tokenExpiry' # <<>>
               /\ tokenExpiry'[1]
                     = now + token'[1].expires_in * 1000 - 60000]_vars

C30_Witness ==
    /\ token # <<>> /\ token[1].expires_in = 120
    /\ tokenExpiry = << 2 * TickMs >>
    /\ now = 2 * TickMs
    /\ GetTokenStatus(token, tokenExpiry).isExpired

\* C31: when updateRetryConfig changes the policy while calls are in flight,
\* every attempt that ends in a failure takes its decision (retry or give
\* up) and its delay from one policy, the one in force when the attempt
\* ended: never the attempt bound of one policy with the delays of another.
AttemptFails(p) ==
    /\ pc[p] = "net"
    /\ pc'[p] \in {"backoff", "release"}
    /\ result'[p].kind # "ok"

C31_PolicySnapshot ==
    [][\A p \in Callers :
          AttemptFails(p) =>
              IF pc'[p] = "backoff"
              THEN /\ attempt[p] < policy.maxAttempts
                   /\ Len(delays'[p]) = Len(delays[p]) + 1
                   /\ delays'[p][Len(delays'[p])]
                        = Min(policy.baseDelay * (2 ^ (attempt[p] - 1)),
                              policy.maxDelay)
              ELSE Retryable(result'[p])
                     => attempt[p] >= policy.maxAttempts]_vars

\* the base delay was doubled between the first and the second failed
\* attempt of a call: the second delay is 2 * 2000, not 2 * 1000
C31_Witness ==
    \E p \in Callers :
        /\ pc[p] = "backoff"
        /\ policy # cfg.retry
        /\ policy.baseDelay = 2000
        /\ delays[p] = << 1000, 4000 >>

\* C32: when a slot frees while operations wait, the waiter handed to add()
\* earliest gets it and the others keep their order; the operations
\* therefore start in the order in which they were handed to add().
WaiterAdmitted ==
    /\ ops.waiting # <<>>
    /\ Len(ops'.started) > Len(ops.started)

C32_AdmissionOrder ==
    /\ [](\A i \in 1..Len(ops.started) : ops.started[i] = i)
    /\ [][WaiterAdmitted =>
             /\ ops'.started = Append(ops.started, ops.waiting[1])
             /\ ops'.waiting = Tail(ops.waiting)
             /\ \A i \in 2..Len(ops.waiting) :
                    ops.waiting[1] < ops.waiting[i]]_vars

\* a slot was freed while two operations waited, and the older one runs
C32_Witness ==
    /\ Len(ops.waiting) >= 1
    /\ Len(ops.started) >= 2
    /\ ops.started[Len(ops.started)] \notin {1, 2}
    /\ ops.started[Len(ops.started)] < ops.waiting[1]
    /\ ops.started[Len(ops.started)] \in ops.running

\* C33: a request whose ensureValidToken has returned never fails in
\* executeRequest for want of a token: no attempt of a request that reached
\* the queue ends with 'No authentication token available'.
C33_TokenStaysAvailable ==
    \A p \in Callers : lastResp[p] # NoTokenResponse

\* C34: token and tokenExpiry are both null or both set in every state; a
\* token call that succeeds stores both, a refresh answered 401/403 clears
\* both, and no step changes one of them alone.
TokenCallReturns(p) ==
    /\ pc[p] \in {"pw_fetch", "rf_fetch"}
    /\ pc'[p] = "enqueue"

C34_CredentialFieldsTogether ==
    /\ []((token = <<>>) <=> (tokenExpiry = <<>>))
    /\ [][\/ UNCHANGED << token, tokenExpiry >>
          \/ /\ token' # <<>>
             /\ tokenExpiry'
                  = << now + (token'[1].expires_in * 1000) - 60000 >>
             /\ \E p \in Callers : TokenCallReturns(p)
          \/ /\ token' = <<>>
             /\ tokenExpiry' = <<>>
             /\ \E p \in Callers : pc[p] = "rf_fetch" /\ ~TokenCallReturns(p)
         ]_vars

\* a refresh answered 401/403 has cleared a stored credential
C34_Witness ==
    /\ rejected
    /\ token = <<>>
    /\ tokenExpiry = <<>>

\* C35: one authenticate call sends at most 3 password grants, returns at
\* the first that succeeds, sleeps 2^k seconds after failure k (k = 1, 2),
\* rethrows the third failure without sleeping, and so comes to an end
\* when every token call settles.
Authenticating(p) == pc[p] \in {"pw_fetch", "rf_fetch", "auth_sleep"}

PasswordGrantSettles(p) == pc[p] = "pw_fetch" /\ pc'[p] # "pw_fetch"

C35_AuthenticateBounded ==
    /\ [](\A p \in Callers :
            /\ authLog[p].password <= 3
            /\ Len(authLog[p].sleeps) <= 2
            /\ \A k \in 1..Len(authLog[p].sleeps) :
                   authLog[p].sleeps[k] = (2 ^ k) * 1000
            /\ pc[p] = "pw_fetch"
                  => Len(authLog[p].sleeps) = authLog[p].password - 1
            /\ pc[p] = "auth_sleep"
                  => Len(authLog[p].sleeps) = authLog[p].password)
    /\ [][\A p \in Callers :
            PasswordGrantSettles(p) =>
                \/ pc'[p] = "enqueue" /\ token' # <<>>
                \/ /\ pc'[p] = "auth_sleep"
                   /\ authLog[p].password < 3
                   /\ Len(authLog'[p].sleeps) = authLog[p].password
                \/ /\ pc'[p] = "done"
                   /\ authLog[p].password = 3
                   /\ authLog'[p] = authLog[p]
                   /\ result'[p].kind \in {"AuthenticationError",
                                           "FetchError"}]_vars
    /\ \A p \in Callers :
          Authenticating(p) ~> (pc[p] \in {"enqueue", "done"})

\* the third password grant of one authenticate call failed
C35_Witness ==
    \E p \in Callers :
        /\ pc[p] = "done"
        /\ authLog[p] = [password |-> 3, sleeps |-> << 2000, 4000 >>]

\* C36: authenticate sends a refresh grant only when a refresh token exists
\* and the time is more than 5 minutes before tokenExpiry; with no
\* concurrent caller, an authenticate called by ensureValidToken (token
\* missing, expired or inside the refresh window) therefore sends the
\* password grant at once and no refresh grant.
RefreshesInAuthenticate(p) ==
    pc[p] = "rf_fetch" /\ rfFrom[p] = "authenticate"

AttemptRetried(p) == pc[p] = "net" /\ pc'[p] = "backoff"

RequestEnds(p) == pc[p] = "net" /\ pc'[p] = "release"

C37_OneBreakerOutcome ==
    [][\A p \in Callers :
          /\ AttemptRetried(p) => breaker' = breaker
          /\ (RequestEnds(p) /\ BreakerEnabled /\ breaker.state = "CLOSED")
                => breaker'.failures = IF result'[p].kind = "ok" THEN 0
                                       ELSE breaker.failures + 1
          /\ (RequestEnds(p) /\ ~BreakerEnabled) => breaker' = breaker]_vars

\* a request failed at its last attempt and the breaker counts one failure
C37_Witness ==
    \E p \in Callers :
        /\ BreakerEnabled
        /\ pc[p] = "release"
        /\ result[p].kind # "ok"
        /\ MaxAttempts >= 2
        /\ result[p].attempts = MaxAttempts
        /\ breaker.failures = 1
        /\ breaker.state = "CLOSED"

\* C38: an admitted request holds exactly one queue slot from its admission
\* to its final outcome, also while it waits for a retry or for the rate
\* limiter: its attempts neither take a slot nor go back to the queue.
Proceeds(p) ==
    /\ p \in InProgress
    /\ pc'[p] \in {"rate_wait", "net", "backoff", "release"}
    /\ << pc[p], attempt[p] >> # << pc'[p], attempt'[p] >>

InQueue(w, p) == \E i \in 1..Len(w) : w[i] = p

C38_OneSlotAcrossRetries ==
    /\ [](/\ running = Cardinality(InProgress)
          /\ \A p \in InProgress : ~InQueue(waiting, p))
    /\ [][\A p \in Callers :
            Proceeds(p) => /\ running' = running
                           /\ waiting' = waiting]_vars

\* a second attempt waits for the rate limiter, in the slot of its request
C38_Witness ==
    \E p \in Callers :
        /\ pc[p] = "rate_wait"
        /\ attempt[p] = 2
        /\ Len(delays[p]) = 1
        /\ running = Cardinality(InProgress)

\* C39: when ensureValidToken throws, makeRequest rejects with that error
\* and nothing of the pipeline has moved: the request was never handed to
\* the queue, the queue's counts, the breaker and the rate budget are as
\* they were, and no API call was sent.
EnsureValidTokenThrows(p) == pc[p] # "done" /\ pc'[p] = "done"

C39_FailedAuthNoPipelineEffect ==
    /\ [](\A p \in Callers :
            pc[p] = "done" => /\ result[p].kind \in {"AuthenticationError",
                                                    "FetchError"}
                              /\ attempt[p] = 0
                              /\ lastResp[p] = NoResponse
                              /\ p \notin InProgress
                              /\ ~InQueue(waiting, p))
    /\ [][\A p \in Callers :
            /\ EnsureValidTokenThrows(p)
                  => /\ pc[p] = "pw_fetch"
                     /\ UNCHANGED << running, waiting, breaker, bucket,
                                     admitted, attempt, lastResp >>
            /\ (pc[p] = "done" /\ pc'[p] # "done")
                  => /\ pc'[p] = "idle"
                     /\ UNCHANGED << running, waiting, breaker, bucket,
                                     admitted, attempt, lastResp >>]_vars

\* makeRequest was rejected by ensureValidToken while another request holds
\* the slot, the breaker has counted a failure and the budget is used
C39_Witness ==
    \E p \in Callers :
        /\ pc[p] = "done"
        /\ running = 1
        /\ breaker.failures = 1
        /\ bucket.credit < BucketCapacity

\* C40: a refreshToken answered with a status that is neither 2xx nor 401
\* nor 403 throws and leaves token and tokenExpiry as they were; only 401
\* and 403 clear them.  forceRefreshToken hands the error back in its
\* report and does not throw.
RefreshSettles(p) == pc[p] = "rf_fetch" /\ pc'[p] # "rf_fetch"

ForceSettles(p) == RefreshSettles(p) /\ rfFrom[p] = "forceRefreshToken"

C40_RefreshFailureKeepsCredential ==
    [][\A p \in Callers :
          /\ RefreshSettles(p) =>
                \/ UNCHANGED << token, tokenExpiry >>
                \/ /\ token' # <<>>
                   /\ pc'[p] = "enqueue" \/ forced'[p].success
                \/ /\ token' = <<>> /\ tokenExpiry' = <<>>
                   /\ ~rejected /\ rejected'
          /\ ForceSettles(p) =>
                /\ pc'[p] = "idle"
                /\ result'[p] = NoResult
                /\ forced'[p].error = "TokenRefreshFailed"
                      => /\ forced'[p].status \notin {200, 401, 403}
                         /\ ~forced'[p].success
                         /\ UNCHANGED << token, tokenExpiry >>
                /\ forced'[p].status \in {401, 403}
                      => /\ forced'[p].error = "RefreshTokenInvalid"
                         /\ token' = <<>> /\ tokenExpiry' = <<>>
                /\ forced'[p].status \notin {200, 401, 403}
                      => UNCHANGED << token, tokenExpiry >>]_vars

\* forceRefreshToken came back from a refresh answered 500 and the
\* credential is the one it found
C40_Witness ==
    \E p \in Callers :
        /\ pc[p] = "idle"
        /\ forced[p].error = "TokenRefreshFailed"
        /\ forced[p].status = 500
        /\ token # <<>>
        /\ tokenExpiry # <<>>

====
